---- MODULE Spec2Model ----
(***************************************************************************)
(* Model of the lesson server (src/server.js): the Teachers, Lessons and   *)
(* "User Profiles" collections and the request handlers that read and      *)
(* write them.  JavaScript objects are functions from field names to       *)
(* values, so that {...a, ...b} is  b @@ a  and an absent field is a name  *)
(* outside the DOMAIN.  Every store round trip of /assign-unit is a step   *)
(* of its own, so that two requests can interleave.                        *)
(***************************************************************************)
EXTENDS Integers, Sequences, FiniteSets, TLC

VARIABLES
  teachers,   \* Teachers collection: teacher name -> [exists, units]
  lessons,    \* Lessons collection, in insertion (natural) order
  profiles,   \* "User Profiles" collection: student -> profile
  clock,      \* Date.now() / new Date()
  areq,       \* requests in flight, one per connection slot
  resp,       \* the response sent by the step just taken (NoResp if none)
  sockets,      \* socket -> "new", "open" (connected) or "closed"
  userSockets,  \* the Map userId -> socket, as its entries in insertion order
  studentData   \* "User Profiles" collection: the documents' completedLessons
                \* and "Lesson Data" fields, in insertion order

vars == <<teachers, lessons, profiles, clock, areq, resp, sockets, userSockets,
          studentData>>

(***************************************************************************)
(* Bounds                                                                  *)
(***************************************************************************)
MaxUnits == 3      \* units held by one teacher document
MaxClock == 3      \* the last millisecond of the clock
MaxAssign == 2     \* unit assignments held by one student profile
MaxLessons == 2    \* documents in the Lessons collection

(***************************************************************************)
(* Values.  An identifier or an identifier-shaped request value is a       *)
(* record [t, n]:                                                          *)
(*   num    the JavaScript number n                                        *)
(*   digits the string of the decimal digits of n          ("123")         *)
(*   junk   the digits of n followed by a letter           ("123abc")      *)
(*   oid    the store's native ObjectId number n                           *)
(*   hex    the 24-hex-character string of ObjectId n                      *)
(*   undef  undefined (n = 0)                                              *)
(*   proto  the string "__proto__" (n = 0)                                 *)
(***************************************************************************)
Undef == [t |-> "undef", n |-> 0]
Num(n) == [t |-> "num", n |-> n]
Digits(n) == [t |-> "digits", n |-> n]
Junk(n) == [t |-> "junk", n |-> n]
Oid(n) == [t |-> "oid", n |-> n]
Hex(n) == [t |-> "hex", n |-> n]
Proto == [t |-> "proto", n |-> 0]

\* value.toString()
ToStr(v) ==
  CASE v.t = "num" -> Digits(v.n)
    [] v.t = "oid" -> Hex(v.n)
    [] OTHER -> v

\* JavaScript truthiness of an identifier value: undefined and 0 are falsy
Truthy(v) == ~(v.t = "undef") /\ ~(v.t = "num" /\ v.n = 0)

MASTER_TEACHER == "admin@trinity-capital.net"
TeacherNames == {"T", MASTER_TEACHER, "N"}
Students == {"s1", "s2"}

NoDoc == [exists |-> FALSE, units |-> <<>>]   \* no document of that name
NoPeriod == "none"     \* the unit has no assigned_to_period field
NaN == -1

\* parseInt(classPeriod, 10)
ParsePeriod(p) ==
  CASE p = "1" -> 1
    [] p = "2" -> 2
    [] OTHER -> NaN

NoResp == [op |-> "none"]

SocketIds == {"k1", "k2"}
UserIds == {"x", "y", "z"}

\* a field of req.body that the payload does not carry, for the fields that
\* hold objects; a missing string field is the empty string, which the
\* handlers treat alike (both are falsy and name no document)
Undefined == [undefined |-> TRUE]
IsUndefined(x) == "undefined" \in DOMAIN x

\* io.emit(...): the event went out, it reached nobody, or the call threw
EmitOutcomes == {"sent", "dropped", "threw"}
IdleReq == [pc |-> "idle"]

(***************************************************************************)
(* Array helpers                                                           *)
(***************************************************************************)
\* Array.prototype.findIndex / the positional operator $: the first of the
\* indexes whose element passes the test, 0 when there is none
FirstOf(I) == IF I = {} THEN 0 ELSE CHOOSE i \in I : \A j \in I : i <= j

HasUnits(t) == t \in DOMAIN teachers /\ teachers[t].exists

UnitsOf(t) == teachers[t].units

\* the Teachers collection after an update of the units array of t
SetUnits(t, units) == [teachers EXCEPT ![t] = [exists |-> TRUE, units |-> units]]

(***************************************************************************)
(* /assign-unit, store operations                                          *)
(***************************************************************************)
\* Step 1: updateOne({name, "units.assigned_to_period": classPeriod},
\*                   {$unset: {"units.$.assigned_to_period": ""}})
UnassignPeriod(units, classPeriod) ==
  LET HoldsPeriod(u) == u.assigned_to_period = classPeriod
      i == FirstOf({x \in 1..Len(units) : HoldsPeriod(units[x])})
  IN IF i = 0 THEN units
     ELSE [units EXCEPT ![i].assigned_to_period = NoPeriod]

\* the positional $ of a filter on "units.value"
ValueIdx(units, unitValue) ==
  FirstOf({x \in 1..Len(units) : units[x].value = unitValue})

\* Step 2: updateOne({name, "units.value": unitValue},
\*                   {$set: {"units.$.assigned_to_period": classPeriod}})
AssignPeriod(units, unitValue, classPeriod) ==
  LET HasValue(u) == u.value = unitValue
      i == FirstOf({x \in 1..Len(units) : HasValue(units[x])})
  IN IF i = 0 THEN units
     ELSE [units EXCEPT ![i].assigned_to_period = classPeriod]

\* matchedCount of step 2
AssignMatched(t, unitValue) ==
  /\ HasUnits(t)
  /\ \E i \in 1..Len(UnitsOf(t)) : UnitsOf(t)[i].value = unitValue

\* Step 3: teacherDoc.units.find((u) => u.assigned_to_period === classPeriod)
AssignedUnitIdx(units, classPeriod) ==
  LET HoldsPeriod(u) == u.assigned_to_period = classPeriod
  IN FirstOf({x \in 1..Len(units) : HoldsPeriod(units[x])})

\* Step 3, legacy references without _id:
\* lessonsCollection.findOne({teacher, "unit.value", "lesson.lesson_title"})
FoundLessonIdx(teacherName, unitValue, title) ==
  LET Matches(d) == /\ d.teacher = teacherName
                    /\ "value" \in DOMAIN d.unit
                    /\ d.unit.value = unitValue
                    /\ "lesson" \in DOMAIN d
                    /\ "lesson_title" \in DOMAIN d.lesson
                    /\ d.lesson.lesson_title = title
  IN FirstOf({x \in 1..Len(lessons) : Matches(lessons[x])})

\* the lessonIds the loop over assignedUnit.lessons collects
RECURSIVE CollectLessonIds(_, _, _)
CollectLessonIds(refs, teacherName, unitValue) ==
  IF refs = <<>> THEN <<>>
  ELSE LET ref == Head(refs)
           k == FoundLessonIdx(teacherName, unitValue, ref.lesson_title)
           rest == CollectLessonIds(Tail(refs), teacherName, unitValue)
       IN IF Truthy(ref._id) THEN <<ref._id>> \o rest
          ELSE IF k # 0 THEN <<ToStr(lessons[k]._id)>> \o rest
          ELSE rest

\* the updateOne of the loop, for every reference it found a lesson for:
\* $set "units.$[unit].lessons.$[lesson]._id" with arrayFilters on the unit
\* value and the lesson title
BackfillIds(units, refs, teacherName, unitValue) ==
  LET titles == {refs[i].lesson_title : i \in
                   {j \in 1..Len(refs) : /\ ~Truthy(refs[j]._id)
                                         /\ FoundLessonIdx(teacherName, unitValue,
                                               refs[j].lesson_title) # 0}}
      FixRef(r) ==
        IF r.lesson_title \in titles
        THEN [r EXCEPT !._id =
               ToStr(lessons[FoundLessonIdx(teacherName, unitValue, r.lesson_title)]._id)]
        ELSE r
      FixUnit(u) ==
        IF u.value = unitValue
        THEN [u EXCEPT !.lessons = [i \in 1..Len(u.lessons) |-> FixRef(u.lessons[i])]]
        ELSE u
  IN [i \in 1..Len(units) |-> FixUnit(units[i])]

\* the unitAssignment object pushed to the students
UnitAssignment(assignedUnit, teacherName, lessonIds, classPeriod) ==
  [unitId |-> assignedUnit.value,
   unitName |-> assignedUnit.name,
   unitValue |-> assignedUnit.value,
   teacherName |-> teacherName,
   lessonIds |-> lessonIds,
   assignedAt |-> clock,
   classPeriod |-> classPeriod]

\* the filter {teacher: teacherName, classPeriod: classPeriodAsNumber}
StudentsToUpdate(teacherName, classPeriod) ==
  {s \in Students : /\ profiles[s].teacher = teacherName
                    /\ profiles[s].classPeriod = ParsePeriod(classPeriod)}

\* $addToSet: the element is appended unless an equal element is present
AddToSet(arr, x) ==
  IF \E i \in 1..Len(arr) : arr[i] = x THEN arr ELSE Append(arr, x)

InFlight == {x \in DOMAIN areq : areq[x].pc # "idle"}

(***************************************************************************)
(* POST /assign-unit                                                       *)
(***************************************************************************)
\* validation and step 1 (un-assign the period from the unit that holds it)
AssignStart(s, teacherName, unitValue, classPeriod) ==
  /\ areq[s].pc = "idle"
  /\ \A st \in Students :
       Len(profiles[st].assignedUnitIds) + Cardinality(InFlight) < MaxAssign
  /\ IF teacherName = "" \/ unitValue = "" \/ classPeriod = ""
     THEN /\ resp' = [op |-> "assign-unit", status |-> 400, stage |-> "validate",
                      store |-> "untouched",
                      missing |-> {f \in {"teacherName", "unitValue", "classPeriod"} :
                                     \/ f = "teacherName" /\ teacherName = ""
                                     \/ f = "unitValue" /\ unitValue = ""
                                     \/ f = "classPeriod" /\ classPeriod = ""}]
          /\ UNCHANGED <<teachers, lessons, profiles, clock, areq>>
     ELSE /\ teachers' = IF HasUnits(teacherName)
                          THEN SetUnits(teacherName,
                                 UnassignPeriod(UnitsOf(teacherName), classPeriod))
                          ELSE teachers
          /\ areq' = [areq EXCEPT ![s] =
                [pc |-> "set", teacherName |-> teacherName,
                 unitValue |-> unitValue, classPeriod |-> classPeriod,
                 pre |-> [teachers |-> teachers, profiles |-> profiles]]]
          /\ resp' = NoResp
          /\ UNCHANGED <<lessons, profiles, clock>>
  /\ UNCHANGED <<sockets, userSockets, studentData>>

\* step 2 (assign the period to the selected unit), 404 when nothing matched
AssignSet(s) ==
  /\ areq[s].pc = "set"
  /\ LET r == areq[s] IN
     IF AssignMatched(r.teacherName, r.unitValue)
     THEN /\ teachers' = SetUnits(r.teacherName,
                AssignPeriod(UnitsOf(r.teacherName), r.unitValue, r.classPeriod))
          /\ areq' = [areq EXCEPT ![s] = [r EXCEPT !.pc = "fetch"]]
          /\ resp' = NoResp
     ELSE /\ resp' = [op |-> "assign-unit", status |-> 404, stage |-> "set",
                      teacherName |-> r.teacherName, unitValue |-> r.unitValue,
                      classPeriod |-> r.classPeriod, pre |-> r.pre]
          /\ areq' = [areq EXCEPT ![s] = IdleReq]
          /\ UNCHANGED teachers
  /\ UNCHANGED <<lessons, profiles, clock>>
  /\ UNCHANGED <<sockets, userSockets, studentData>>

\* step 3 (fetch the assigned unit, collect its lesson ids), then the
\* parseInt check of the class period
AssignFetch(s) ==
  /\ areq[s].pc = "fetch"
  /\ LET r == areq[s]
         units == UnitsOf(r.teacherName)
         k == AssignedUnitIdx(units, r.classPeriod)
         Fail(code) == [op |-> "assign-unit", status |-> code, stage |-> "fetch",
                        teacherName |-> r.teacherName, unitValue |-> r.unitValue,
                        classPeriod |-> r.classPeriod, pre |-> r.pre]
     IN
     IF ~HasUnits(r.teacherName)
     THEN /\ resp' = Fail(404)
          /\ areq' = [areq EXCEPT ![s] = IdleReq]
          /\ UNCHANGED teachers
     ELSE IF k = 0
     THEN /\ resp' = Fail(500)
          /\ areq' = [areq EXCEPT ![s] = IdleReq]
          /\ UNCHANGED teachers
     ELSE LET assignedUnit == units[k]
              lessonIds == CollectLessonIds(assignedUnit.lessons, r.teacherName,
                                            assignedUnit.value)
          IN /\ teachers' = SetUnits(r.teacherName,
                   BackfillIds(units, assignedUnit.lessons, r.teacherName,
                               assignedUnit.value))
             /\ IF ParsePeriod(r.classPeriod) = NaN
                THEN /\ resp' = Fail(400)
                     /\ areq' = [areq EXCEPT ![s] = IdleReq]
                ELSE /\ resp' = NoResp
                     /\ areq' = [areq EXCEPT ![s] =
                          [pc |-> "find", teacherName |-> r.teacherName,
                           unitValue |-> r.unitValue, classPeriod |-> r.classPeriod,
                           pre |-> r.pre,
                           assignedUnit |-> assignedUnit,
                           unitAssignment |->
                             UnitAssignment(assignedUnit, r.teacherName, lessonIds,
                                            r.classPeriod)]]
  /\ UNCHANGED <<lessons, profiles, clock>>
  /\ UNCHANGED <<sockets, userSockets, studentData>>

\* profilesCollection.find(...): the students to notify
AssignFind(s) ==
  /\ areq[s].pc = "find"
  /\ areq' = [areq EXCEPT ![s] =
       [areq[s] @@ [studentsToUpdate |->
                      StudentsToUpdate(areq[s].teacherName, areq[s].classPeriod)]
          EXCEPT !.pc = "update"]]
  /\ resp' = NoResp
  /\ UNCHANGED <<teachers, lessons, profiles, clock>>
  /\ UNCHANGED <<sockets, userSockets, studentData>>

\* step 4 (updateMany with $addToSet), the notifications and the response;
\* emit is the outcome of the io.emit calls
AssignUpdateHandler(s, emit) ==
  /\ areq[s].pc = "update"
  /\ LET r == areq[s]
         matched == StudentsToUpdate(r.teacherName, r.classPeriod)
         After(st) == AddToSet(profiles[st].assignedUnitIds, r.unitAssignment)
         modified == {st \in matched : After(st) # profiles[st].assignedUnitIds}
     IN /\ profiles' = [st \in Students |->
              IF st \in matched
              THEN [profiles[st] EXCEPT !.assignedUnitIds = After(st)]
              ELSE profiles[st]]
        /\ resp' = [op |-> "assign-unit",
                    status |-> IF emit = "threw" THEN 500 ELSE 200,
                    emit |-> emit, stage |-> "update",
                    teacherName |-> r.teacherName, unitValue |-> r.unitValue,
                    classPeriod |-> r.classPeriod,
                    pre |-> r.pre, assignedUnit |-> r.assignedUnit,
                    unitAssignment |-> r.unitAssignment,
                    notified |-> r.studentsToUpdate,
                    studentsUpdated |-> Cardinality(modified)]
        /\ areq' = [areq EXCEPT ![s] = IdleReq]
  /\ UNCHANGED <<teachers, lessons, clock>>
  /\ UNCHANGED <<sockets, userSockets, studentData>>

\* a request whose notifications go out
AssignUpdate(s) == AssignUpdateHandler(s, "sent")

(***************************************************************************)
(* POST /saveUnitChanges                                                   *)
(***************************************************************************)
\* updateOne({name, "units.value": unitData.value}, {$set: {"units.$": unitData}})
ReplaceUnit(units, unitData) ==
  LET HasValue(u) == u.value = unitData.value
      i == FirstOf({x \in 1..Len(units) : HasValue(units[x])})
  IN IF i = 0 THEN units ELSE [units EXCEPT ![i] = unitData]

\* the handler; emit is the outcome of the io.emit calls
SaveUnitChangesHandler(teacherName, unitData, emit) ==
  /\ IF unitData.isDefaultUnit /\ teacherName # MASTER_TEACHER
     THEN /\ resp' = [op |-> "saveUnitChanges", status |-> 403]
          /\ UNCHANGED teachers
     ELSE LET cleanUnitData == [unitData EXCEPT !.isDefaultUnit = FALSE]
          IN IF ValueIdx(UnitsOf(teacherName), unitData.value) = 0
             THEN /\ resp' = [op |-> "saveUnitChanges", status |-> 404]
                  /\ UNCHANGED teachers
             ELSE /\ teachers' = SetUnits(teacherName,
                        ReplaceUnit(UnitsOf(teacherName), cleanUnitData))
                  /\ resp' = [op |-> "saveUnitChanges",
                              status |-> IF emit = "threw" THEN 500 ELSE 200,
                              emit |-> emit, teacherName |-> teacherName]
  /\ UNCHANGED <<lessons, profiles, clock, areq>>
  /\ UNCHANGED <<sockets, userSockets, studentData>>

\* a request whose notifications go out
SaveUnitChanges(teacherName, unitData) ==
  SaveUnitChangesHandler(teacherName, unitData, "sent")

(***************************************************************************)
(* POST /create-custom-unit                                                *)
(***************************************************************************)
CreateCustomUnit(teacherName, unitData) ==
  LET newUnit == [value |-> unitData.value, name |-> unitData.name,
                  assigned_to_period |-> NoPeriod, lessons |-> <<>>,
                  isDefaultUnit |-> FALSE]
  IN
  /\ ValueIdx(UnitsOf(teacherName), unitData.value) # 0
       \/ Len(UnitsOf(teacherName)) < MaxUnits
  /\ IF ~HasUnits(teacherName)
     THEN \* no teacher document: {name: teacherName} matches nothing
          /\ resp' = [op |-> "create-custom-unit", status |-> 404]
          /\ UNCHANGED teachers
     ELSE /\ teachers' = SetUnits(teacherName,
                IF ValueIdx(UnitsOf(teacherName), unitData.value) # 0
                THEN ReplaceUnit(UnitsOf(teacherName), newUnit)
                ELSE Append(UnitsOf(teacherName), newUnit))
          /\ resp' = [op |-> "create-custom-unit", status |-> 201,
                      teacherName |-> teacherName]
  /\ UNCHANGED <<lessons, profiles, clock, areq>>
  /\ UNCHANGED <<sockets, userSockets, studentData>>

(***************************************************************************)
(* Lesson documents.  The modelled lesson fields are the title, the        *)
(* description, the four block arrays, the conditions and the required     *)
(* actions; the remaining scalar fields of the source (status, day, ...)   *)
(* follow the pattern of lesson_title and are left out.                    *)
(***************************************************************************)
\* obj[k] || dflt, for the fields whose values are strings or arrays
Get(obj, k, dflt) == IF k \in DOMAIN obj THEN obj[k] ELSE dflt

Has(obj, k) == k \in DOMAIN obj

\* the lessonDocument of /save-lesson: every field at top level
SaveLessonDocument(lesson, unit, teacher) ==
  [_id |-> Num(clock),
   teacher |-> teacher,
   unit |-> unit,
   lesson_title |-> Get(lesson, "lesson_title", ""),
   lesson_description |-> Get(lesson, "lesson_description", ""),
   content |-> Get(lesson, "content", <<>>),
   lesson_blocks |-> Get(lesson, "lesson_blocks", <<>>),
   intro_text_blocks |-> Get(lesson, "intro_text_blocks", <<>>),
   learning_objectives |-> Get(lesson, "learning_objectives", <<>>),
   lesson_conditions |-> Get(lesson, "lesson_conditions", <<>>),
   required_actions |-> Get(lesson, "required_actions", <<>>),
   createdAt |-> clock]

\* insertOne fails with a duplicate key when the _id is taken
IdTaken(id) == \E i \in 1..Len(lessons) : lessons[i]._id = id

\* updateOne({name: teacher, "units.name": unit.name},
\*           {$push: {"units.$.lessons": lessonReference}})
PushReference(units, unitName, ref) ==
  LET HasName(u) == u.name = unitName
      i == FirstOf({x \in 1..Len(units) : HasName(units[x])})
  IN IF i = 0 THEN units
     ELSE [units EXCEPT ![i].lessons = Append(@, ref)]

UnitNamed(units, unitName) ==
  \E i \in 1..Len(units) : units[i].name = unitName

\* step 3 of /save-lesson and /update-lesson for one student: the lesson id
\* is added to the first assignment of the unit (by name or by value)
AddLessonToStudent(profile, unit, idString) ==
  LET IsUnit(a) == a.unitName = unit.name \/ a.unitValue = unit.value
      i == FirstOf({x \in 1..Len(profile.assignedUnitIds) : IsUnit(profile.assignedUnitIds[x])})
  IN IF i = 0 THEN profile
     ELSE IF \E j \in 1..Len(profile.assignedUnitIds[i].lessonIds) :
               profile.assignedUnitIds[i].lessonIds[j] = idString
     THEN profile
     ELSE [profile EXCEPT !.assignedUnitIds[i].lessonIds = Append(@, idString)]

AddLessonToStudents(teacher, unit, idString) ==
  [st \in Students |->
     IF profiles[st].teacher = teacher
     THEN AddLessonToStudent(profiles[st], unit, idString)
     ELSE profiles[st]]

(***************************************************************************)
(* POST /save-lesson                                                       *)
(***************************************************************************)
\* the fields of {lesson, unit, teacher} the payload lacks
MissingOfSave(lesson, unit, teacher) ==
  {f \in {"lesson", "unit", "teacher"} :
     \/ f = "lesson" /\ IsUndefined(lesson)
     \/ f = "unit" /\ IsUndefined(unit)
     \/ f = "teacher" /\ teacher = ""}

\* a payload without lesson: lesson.lesson_title throws while the document
\* is built, before the store is used
SaveLessonWithoutLesson(lesson, unit, teacher) ==
  /\ resp' = [op |-> "save-lesson", status |-> 500, store |-> "untouched",
              missing |-> MissingOfSave(lesson, unit, teacher)]
  /\ UNCHANGED <<teachers, lessons, profiles, clock, areq>>
  /\ UNCHANGED <<sockets, userSockets, studentData>>

\* a payload without unit: the document is inserted, then unit.name throws
\* in the filter of the Teachers update
SaveLessonWithoutUnit(lesson, unit, teacher) ==
  LET doc == SaveLessonDocument(lesson, unit, teacher)
      Answer(store) == [op |-> "save-lesson", status |-> 500, store |-> store,
                        missing |-> MissingOfSave(lesson, unit, teacher)]
  IN
  /\ Len(lessons) < MaxLessons
  /\ IF IdTaken(doc._id)
     THEN /\ resp' = Answer("read")
          /\ UNCHANGED lessons
     ELSE /\ lessons' = Append(lessons, doc)
          /\ resp' = Answer("written")
  /\ UNCHANGED <<teachers, profiles, clock, areq>>
  /\ UNCHANGED <<sockets, userSockets, studentData>>

\* a payload with lesson and unit
SaveLessonComplete(lesson, unit, teacher) ==
  LET doc == SaveLessonDocument(lesson, unit, teacher)
      numericLessonId == ToStr(doc._id)
      lessonReference ==
        [_id |-> numericLessonId,
         lesson_title |-> Get(lesson, "lesson_title", ""),
         lesson_description |-> Get(lesson, "lesson_description", "")]
      newUnit == [value |-> unit.value, name |-> unit.name,
                  assigned_to_period |-> NoPeriod,
                  lessons |-> <<lessonReference>>, isDefaultUnit |-> FALSE]
  IN
  /\ Len(lessons) < MaxLessons
  /\ IF HasUnits(teacher)
     THEN UnitNamed(UnitsOf(teacher), unit.name) \/ Len(UnitsOf(teacher)) < MaxUnits
     ELSE TRUE
  /\ IF IdTaken(doc._id)
     THEN /\ resp' = [op |-> "save-lesson", status |-> 500, store |-> "read",
                      missing |-> MissingOfSave(lesson, unit, teacher)]
          /\ UNCHANGED <<teachers, lessons, profiles>>
     ELSE /\ lessons' = Append(lessons, doc)
          /\ teachers' =
                IF ~HasUnits(teacher) THEN teachers
                ELSE IF UnitNamed(UnitsOf(teacher), unit.name)
                THEN SetUnits(teacher,
                       PushReference(UnitsOf(teacher), unit.name, lessonReference))
                ELSE SetUnits(teacher, Append(UnitsOf(teacher), newUnit))
          /\ profiles' = AddLessonToStudents(teacher, unit, numericLessonId)
          /\ resp' = [op |-> "save-lesson", status |-> 201,
                      lessonId |-> numericLessonId, teacher |-> teacher,
                      unit |-> unit, store |-> "written",
                      missing |-> MissingOfSave(lesson, unit, teacher)]
  /\ UNCHANGED <<clock, areq>>
  /\ UNCHANGED <<sockets, userSockets, studentData>>

SaveLesson(lesson, unit, teacher) ==
  IF IsUndefined(lesson) THEN SaveLessonWithoutLesson(lesson, unit, teacher)
  ELSE IF IsUndefined(unit) THEN SaveLessonWithoutUnit(lesson, unit, teacher)
  ELSE SaveLessonComplete(lesson, unit, teacher)

(***************************************************************************)
(* POST /update-lesson                                                     *)
(***************************************************************************)
\* the decimal digits a 24-hex string starts with: the string of an even
\* ObjectId n starts with the digits of 100 + n followed by a letter, the
\* string of an odd one with a letter
HexPrefix(n) == IF n % 2 = 0 THEN 100 + n ELSE NaN

\* parseInt(lessonId, 10): the leading decimal digits of the value
ParseInt(v) ==
  CASE v.t \in {"num", "digits", "junk"} -> v.n
    [] v.t = "hex" -> HexPrefix(v.n)
    [] OTHER -> NaN

\* the query built from lessonId: numeric, else ObjectId, else the literal
UpdateQuery(lessonId) ==
  IF ParseInt(lessonId) # NaN THEN Num(ParseInt(lessonId))
  ELSE IF lessonId.t = "hex" THEN Oid(lessonId.n)
  ELSE IF lessonId.t = "undef" THEN Oid(0)   \* new ObjectId(): a fresh id
  ELSE lessonId

\* lessonsCollection.findOne({_id: ...}): index of the document, 0 if none
FindById(id) == FirstOf({x \in 1..Len(lessons) : lessons[x]._id = id})

Null == -1    \* null / undefined condition value

\* the normalisation of one condition record
NormalizeCondition_LegacyFirst(cond) ==
  [condition_type |-> cond.condition_type,
   condition_value |->
     IF Has(cond, "value") /\ cond.value # Null
     THEN cond.value
     ELSE Get(cond, "condition_value", Null),
   action_type |-> Get(cond, "action_type", "null")]

NormalizeCondition(cond) ==
  [condition_type |-> cond.condition_type,
   condition_value |->
     IF Has(cond, "condition_value") /\ cond.condition_value # Null
     THEN cond.condition_value
     ELSE Get(cond, "value", Null),
   action_type |-> Get(cond, "action_type", "null")]

NormalizeConditions(conds) ==
  [i \in 1..Len(conds) |-> NormalizeCondition(conds[i])]

ConditionTypes(conds) == [i \in 1..Len(conds) |-> conds[i].condition_type]

\* lesson.field !== undefined ? lesson.field : existingLessonData.field || dflt
Merged(lesson, existingLessonData, k, dflt) ==
  IF Has(lesson, k) THEN lesson[k] ELSE Get(existingLessonData, k, dflt)

\* a unit field that holds the unit's name as a string, not a unit object
UnitString(name) == [string |-> name]

\* the nested lesson object of the replacement document (the payloads carry
\* no unit and no teacher of their own)
MergedLesson(lesson, existingLessonData, unit, teacher) ==
  LET conds == Get(lesson, "lesson_conditions",
                   Get(existingLessonData, "lesson_conditions", <<>>))
  IN [lesson_title |-> Merged(lesson, existingLessonData, "lesson_title", ""),
      lesson_description |->
        Merged(lesson, existingLessonData, "lesson_description", ""),
      content |-> Merged(lesson, existingLessonData, "content", <<>>),
      lesson_blocks |-> Merged(lesson, existingLessonData, "lesson_blocks", <<>>),
      intro_text_blocks |->
        Merged(lesson, existingLessonData, "intro_text_blocks", <<>>),
      learning_objectives |->
        Merged(lesson, existingLessonData, "learning_objectives", <<>>),
      unit |-> Get(existingLessonData, "unit", UnitString(unit.name)),
      teacher |-> Get(existingLessonData, "teacher", teacher),
      createdAt |-> Get(existingLessonData, "createdAt", clock),
      structure_cleaned |-> TRUE,
      updatedAt |-> clock,
      lesson_conditions |-> NormalizeConditions(conds),
      required_actions |-> Get(lesson, "required_actions", ConditionTypes(conds))]
     @@ existingLessonData

\* the replacement document: the nested lesson object and three top-level
\* fields
UpdateLessonDocument(lesson, unit, teacher, lessonId, existingLesson) ==
  [_id |-> IF ParseInt(lessonId) # NaN /\ ParseInt(lessonId) # 0
           THEN Num(ParseInt(lessonId)) ELSE lessonId,
   lesson |-> MergedLesson(lesson, Get(existingLesson, "lesson", <<>>),
                           unit, teacher),
   teacher |-> existingLesson.teacher,
   unit |-> existingLesson.unit,
   createdAt |-> Get(existingLesson, "createdAt", clock)]

\* updateOne with arrayFilters: every reference with that _id in every unit
\* of that name is replaced; when the filter matched no document the
\* reference is pushed to the unit of that name
UpdateReference(units, unitName, ref) ==
  LET matched ==
        /\ UnitNamed(units, unitName)
        /\ \E i \in 1..Len(units) : \E j \in 1..Len(units[i].lessons) :
             units[i].lessons[j]._id = ref._id
      Replace(u) ==
        IF u.name = unitName
        THEN [u EXCEPT !.lessons =
               [j \in 1..Len(u.lessons) |->
                  IF u.lessons[j]._id = ref._id THEN ref ELSE u.lessons[j]]]
        ELSE u
  IN IF matched THEN [i \in 1..Len(units) |-> Replace(units[i])]
     ELSE PushReference(units, unitName, ref)

\* the fields of {lesson, unit, teacher, lessonId} the payload lacks
MissingOfUpdate(lesson, unit, teacher, lessonId) ==
  {f \in {"lesson", "unit", "teacher", "lessonId"} :
     \/ f = "lesson" /\ IsUndefined(lesson)
     \/ f = "unit" /\ IsUndefined(unit)
     \/ f = "teacher" /\ teacher = ""
     \/ f = "lessonId" /\ lessonId = Undef}

\* the handler; emit is the outcome of io.emit("lessonUpdated", ...)
UpdateLessonHandler(lesson, unit, teacher, lessonId, emit) ==
  LET query == UpdateQuery(lessonId)
      k == IF IsUndefined(unit) \/ IsUndefined(lesson) THEN 0
           ELSE FindById(query)
      pre == [lessons |-> lessons, teachers |-> teachers, profiles |-> profiles]
      Answer(code, store) ==
        [op |-> "update-lesson", status |-> code,
         lessonId |-> lessonId, lesson |-> lesson, pre |-> pre,
         found |-> k, store |-> store,
         missing |-> MissingOfUpdate(lesson, unit, teacher, lessonId)]
  IN
  /\ IF IsUndefined(unit) \/ IsUndefined(lesson)
     THEN \* unit.name or lesson.lesson_title of the request log throws
          /\ resp' = Answer(500, "untouched")
          /\ UNCHANGED <<teachers, lessons, profiles>>
     ELSE IF k = 0
     THEN /\ resp' = Answer(404, "read")
          /\ UNCHANGED <<teachers, lessons, profiles>>
     ELSE LET lessonDocument ==
                UpdateLessonDocument(lesson, unit, teacher, lessonId, lessons[k])
              lessonReference ==
                [_id |-> ToStr(lessonId),
                 lesson_title |-> Get(lesson, "lesson_title", ""),
                 lesson_description |-> Get(lesson, "lesson_description", "")]
          IN IF lessonDocument._id # lessons[k]._id
             THEN \* replaceOne rejects a replacement that alters _id
                  /\ resp' = Answer(500, "read")
                  /\ UNCHANGED <<teachers, lessons, profiles>>
             ELSE /\ lessons' = [lessons EXCEPT ![k] = lessonDocument]
                  /\ teachers' =
                       IF HasUnits(teacher)
                       THEN SetUnits(teacher,
                              UpdateReference(UnitsOf(teacher), unit.name,
                                              lessonReference))
                       ELSE teachers
                  /\ profiles' = AddLessonToStudents(teacher, unit, ToStr(lessonId))
                  /\ resp' = [emit |-> emit] @@
                       IF emit = "threw"
                       THEN \* the handler's catch block
                            Answer(500, "written")
                       ELSE Answer(200, "written")
  /\ UNCHANGED <<clock, areq>>
  /\ UNCHANGED <<sockets, userSockets, studentData>>

\* a request whose notification goes out
UpdateLesson(lesson, unit, teacher, lessonId) ==
  UpdateLessonHandler(lesson, unit, teacher, lessonId, "sent")

(***************************************************************************)
(* POST /copy-default-unit                                                 *)
(***************************************************************************)
\* lessonsCollection.find({teacher: MASTER_TEACHER, "unit.value": unitValue})
MasterLessonsData(unitValue) ==
  SelectSeq(lessons, LAMBDA d : /\ d.teacher = MASTER_TEACHER
                                /\ Has(d.unit, "value")
                                /\ d.unit.value = unitValue)

\* the documents inserted for the copies; the store generates their _id
CopiedLessonDocuments(masterLessonsData, teacherName) ==
  [i \in 1..Len(masterLessonsData) |->
     [_id |-> Oid(Len(lessons) + i),
      teacher |-> teacherName,
      unit |-> masterLessonsData[i].unit,
      lesson |-> Get(masterLessonsData[i], "lesson", <<>>),
      createdAt |-> clock,
      copiedFromMaster |-> TRUE]]

CopyDefaultUnit(teacherName, unitValue) ==
  LET m == ValueIdx(UnitsOf(MASTER_TEACHER), unitValue)
      masterLessonsData == MasterLessonsData(unitValue)
      copies == CopiedLessonDocuments(masterLessonsData, teacherName)
      lessonReferences ==
        [i \in 1..Len(copies) |->
           [_id |-> copies[i]._id,
            \* an absent title is stored as null, written "" here
            lesson_title |-> Get(copies[i].lesson, "lesson_title", "")]]
      Fail(code) == /\ resp' = [op |-> "copy-default-unit", status |-> code]
                    /\ UNCHANGED <<teachers, lessons>>
  IN
  /\ Len(lessons) + Len(masterLessonsData) <= MaxLessons
  /\ Len(UnitsOf(teacherName)) < MaxUnits
  /\ IF teacherName = MASTER_TEACHER THEN Fail(400)
     ELSE IF ~HasUnits(MASTER_TEACHER) \/ m = 0 THEN Fail(404)
     ELSE IF ValueIdx(UnitsOf(teacherName), unitValue) # 0 THEN Fail(409)
     ELSE LET masterUnit == UnitsOf(MASTER_TEACHER)[m]
              newUnit == [masterUnit EXCEPT !.isDefaultUnit = FALSE,
                                            !.assigned_to_period = NoPeriod,
                                            !.lessons =
                                               IF Len(copies) > 0
                                               THEN lessonReferences
                                               ELSE masterUnit.lessons]
          IN /\ teachers' = SetUnits(teacherName,
                   Append(UnitsOf(teacherName), newUnit))
             /\ lessons' = lessons \o copies
             /\ resp' = [op |-> "copy-default-unit", status |-> 200,
                         teacherName |-> teacherName,
                         copiedLessonsCount |-> Len(copies)]
  /\ UNCHANGED <<profiles, clock, areq>>
  /\ UNCHANGED <<sockets, userSockets, studentData>>

\* the clock advances between requests
Tick ==
  /\ clock < MaxClock
  /\ clock' = clock + 1
  /\ resp' = NoResp
  /\ UNCHANGED <<teachers, lessons, profiles, areq>>
  /\ UNCHANGED <<sockets, userSockets, studentData>>

(***************************************************************************)
(* The teacher's units: /assign-unit interleaved with the other handlers   *)
(* that write the units array.                                             *)
(***************************************************************************)
Slots == {1, 2}

Unit(value, name, period, refs) ==
  [value |-> value, name |-> name, assigned_to_period |-> period,
   lessons |-> refs, isDefaultUnit |-> FALSE]

\* a reference stored by a client that never knew the lesson's _id
LegacyRef == [_id |-> Undef, lesson_title |-> "M"]

\* the master teacher has saved one lesson "M" into the default unit u3
MasterLesson ==
  [_id |-> Num(1), teacher |-> MASTER_TEACHER,
   unit |-> [name |-> "n3", value |-> "u3"],
   lesson_title |-> "M", lesson_description |-> "", content |-> <<>>,
   lesson_blocks |-> <<>>, intro_text_blocks |-> <<>>,
   learning_objectives |-> <<>>, lesson_conditions |-> <<>>,
   required_actions |-> <<>>, createdAt |-> 1]

Init ==
  /\ teachers = [t \in TeacherNames |->
       CASE t = "T" -> [exists |-> TRUE,
                        units |-> <<Unit("u1", "n1", NoPeriod, <<>>),
                                    Unit("u2", "n2", NoPeriod, <<>>)>>]
         [] t = MASTER_TEACHER ->
              [exists |-> TRUE,
               units |-> <<Unit("u3", "n3", NoPeriod,
                                <<[_id |-> Digits(1), lesson_title |-> "M"]>>)>>]
         [] OTHER -> NoDoc]
  /\ lessons = <<MasterLesson>>
  /\ profiles = [st \in Students |->
       [teacher |-> "T", classPeriod |-> IF st = "s1" THEN 1 ELSE 2,
        assignedUnitIds |-> <<>>]]
  /\ clock = 2
  /\ areq = [x \in Slots |-> IdleReq]
  /\ resp = NoResp
  /\ sockets = [k \in SocketIds |-> "new"]
  /\ userSockets = <<>>
  /\ studentData = [i \in 1..2 |->
       [memberName |-> IF i = 1 THEN "s1" ELSE "s2",
        completedLessons |-> <<>>, LessonData |-> <<>>]]

AssignInputs ==
  ({"T"} \X {"u1", "u2", "u9"} \X {"1", "2", "x"})
    \cup {<<"N", "u1", "1">>, <<"", "u1", "1">>}

\* the unit a client sends back may carry the period it last saw
UnitDataInputs ==
  {[value |-> "u2", name |-> "n2", assigned_to_period |-> p, lessons |-> l,
    isDefaultUnit |-> d] :
     p \in {NoPeriod, "1"}, l \in {<<>>, <<LegacyRef>>}, d \in BOOLEAN}
    \cup {[value |-> "u3", name |-> "n3", assigned_to_period |-> NoPeriod,
           lessons |-> <<>>, isDefaultUnit |-> TRUE]}

NewUnitInputs == {[value |-> "u1", name |-> "n1"], [value |-> "u3", name |-> "n3"]}

SaveLessonUnits == {[name |-> "n1", value |-> "u1"], [name |-> "n4", value |-> "u1"]}

AssignSteps(s) ==
  \/ AssignSet(s)
  \/ AssignFetch(s)
  \/ AssignFind(s)
  \/ AssignUpdate(s)

\* one request at a time
Next ==
  \/ \E in \in AssignInputs : AssignStart(1, in[1], in[2], in[3])
  \/ AssignSteps(1)
  \/ /\ InFlight = {}
     /\ \/ \E t \in {"T", MASTER_TEACHER}, u \in UnitDataInputs : SaveUnitChanges(t, u)
        \/ \E t \in {"T", "N"}, u \in NewUnitInputs : CreateCustomUnit(t, u)
        \/ \E t \in TeacherNames, v \in {"u3", "u9"} : CopyDefaultUnit(t, v)
        \/ \E t \in {"T", "N"}, u \in SaveLessonUnits :
             SaveLesson([lesson_title |-> "A"], u, t)

Spec == Init /\ [][Next]_vars

\* two /assign-unit requests whose store operations interleave
\* the requests of slot 1 name unit u1, those of slot 2 unit u2, all of them
\* for teacher T and class period "1"
RaceUnit(s) == IF s = 1 THEN "u1" ELSE "u2"

NextRace ==
  \E s \in Slots :
    \/ AssignStart(s, "T", RaceUnit(s), "1")
    \/ AssignSteps(s)

SpecRace == Init /\ [][NextRace]_vars

(***************************************************************************)
(* Authoring: /save-lesson and /update-lesson, one request at a time       *)
(***************************************************************************)
LegacyCondition == [condition_type |-> "c1", condition_value |-> Null, value |-> 5]

PlainCondition == [condition_type |-> "c2", condition_value |-> 3]

FullLesson ==
  [lesson_title |-> "A", lesson_description |-> "d",
   content |-> <<1, 2, 3, 4, 5>>, lesson_blocks |-> <<1>>,
   intro_text_blocks |-> <<1>>, learning_objectives |-> <<1>>,
   lesson_conditions |-> <<PlainCondition>>, required_actions |-> <<"r">>]

TitleOnly == [lesson_title |-> "New Title"]

ConditionsOnly == [lesson_conditions |-> <<LegacyCondition>>]

\* the lesson saved at time n, as a number and as "<n>abc"; the master's
\* lesson as a string; an ObjectId string
LessonIdInputs ==
  UNION {{Num(n), Junk(n)} : n \in 1..2} \cup {Digits(1), Hex(1)}

NextLesson ==
  \/ \E l \in {FullLesson, TitleOnly} :
       SaveLesson(l, [name |-> "n1", value |-> "u1"], "T")
  \/ \E l \in {TitleOnly, ConditionsOnly}, id \in LessonIdInputs :
       UpdateLesson(l, [name |-> "n1", value |-> "u1"], "T", id)
  \/ Tick

SpecLesson == Init /\ [][NextLesson]_vars

(***************************************************************************)
(* Claims about /update-lesson                                             *)
(***************************************************************************)
LessonFields ==
  {"lesson_title", "lesson_description", "content", "lesson_blocks",
   "intro_text_blocks", "learning_objectives", "lesson_conditions",
   "required_actions"}

\* the field k of a stored lesson, read at top level or under lesson
HasField(doc, k) == Has(doc, k) \/ (Has(doc, "lesson") /\ Has(doc.lesson, k))

FieldOf(doc, k) == IF Has(doc, k) THEN doc[k] ELSE doc.lesson[k]

SameField(before, after, k) ==
  /\ HasField(before, k) = HasField(after, k)
  /\ HasField(before, k) => FieldOf(before, k) = FieldOf(after, k)

\* C5: after a successful /update-lesson, every lesson field the payload
\* omits has the value it had before the request, in either storage shape.
C5_OmittedFieldsKept ==
  (resp.op = "update-lesson" /\ resp.status = 200) =>
    \A k \in LessonFields \ DOMAIN resp.lesson :
      SameField(resp.pre.lessons[resp.found], lessons[resp.found], k)

\* C6: an /update-lesson whose identifier is the identifier of no stored
\* lesson answers 404 and writes nothing.
C6_NotFoundWritesNothing ==
  (/\ resp.op = "update-lesson"
   /\ \A i \in 1..Len(resp.pre.lessons) :
        ToStr(resp.pre.lessons[i]._id) # ToStr(resp.lessonId)) =>
    /\ resp.status = 404
    /\ lessons = resp.pre.lessons
    /\ teachers = resp.pre.teachers
    /\ profiles = resp.pre.profiles

(***************************************************************************)
(* Claims about the class-period assignment                                *)
(***************************************************************************)
\* the indexes of the units of teacher t that carry class period p
Carriers(t, p) ==
  {i \in 1..Len(UnitsOf(t)) : UnitsOf(t)[i].assigned_to_period = p}

Periods == {"1", "2", "x"}

\* C1: between requests, no teacher document holds two units whose
\* assigned_to_period is the same class period.
C1_OneUnitPerPeriod ==
  InFlight = {} =>
    \A t \in TeacherNames, p \in Periods : Cardinality(Carriers(t, p)) <= 1

\* C2: after a successful /assign-unit for (T, U2, p) that ran alone, the
\* unit U2 carries p and no other unit of T does.
C2_AssignedUnitAlone ==
  (resp.op = "assign-unit" /\ resp.status = 200) =>
    /\ Cardinality(Carriers(resp.teacherName, resp.classPeriod)) = 1
    /\ \A i \in Carriers(resp.teacherName, resp.classPeriod) :
         UnitsOf(resp.teacherName)[i].value = resp.unitValue

\* C3: when two interleaved /assign-unit requests for one teacher and one
\* class period have both completed, one unit of the teacher carries the
\* period and not two.
C3_RaceOneUnitPerPeriod ==
  (InFlight = {} /\ resp.op = "assign-unit" /\ resp.status = 200) =>
    Cardinality(Carriers(resp.teacherName, resp.classPeriod)) = 1

\* C4: an /assign-unit request answered 404 (teacher or unit not found) or
\* 400 (invalid class period) leaves the teacher documents and the student
\* profiles as they were before the request.
C4_FailureChangesNothing ==
  (resp.op = "assign-unit" /\ resp.status \in {400, 404}
     /\ resp.stage # "validate") =>
    /\ teachers = resp.pre.teachers
    /\ profiles = resp.pre.profiles


(***************************************************************************)
(* POST /get-lessons-by-ids                                                *)
(***************************************************************************)
MaxIds == 3

\* new ObjectId(id) succeeds for a 24-hex string only; for a number it is
\* tried on id.toString() and throws
ObjectIds(lessonIds) ==
  LET hexIds == SelectSeq(lessonIds, LAMBDA id : id.t = "hex")
  IN [i \in 1..Len(hexIds) |-> Oid(hexIds[i].n)]

\* every string is kept as a string
StringIds(lessonIds) ==
  SelectSeq(lessonIds, LAMBDA id : id.t \in {"digits", "junk", "hex"})

\* a number, or a string that matches /^\d+$/ (parsed)
NumericIds_NumbersOnly(lessonIds) ==
  SelectSeq(lessonIds, LAMBDA id : id.t = "num")

NumericIds(lessonIds) ==
  LET numeric == SelectSeq(lessonIds, LAMBDA id : id.t \in {"num", "digits"})
  IN [i \in 1..Len(numeric) |-> Num(numeric[i].n)]

In(v, ids) == \E i \in 1..Len(ids) : ids[i] = v

\* find({_id: {$in: ids}})
FindByIdIn(ids) == SelectSeq(lessons, LAMBDA doc : In(doc._id, ids))

\* find({"lesson.lesson_id": {$in: ids}}), find({lessonId: ...}),
\* find({lesson_id: ...})
FindBySecondary(ids) ==
  SelectSeq(lessons, LAMBDA doc :
    Has(doc, "lesson") /\ Has(doc.lesson, "lesson_id")
      /\ In(doc.lesson.lesson_id, ids))
  \o SelectSeq(lessons, LAMBDA doc :
       Has(doc, "lessonId") /\ In(doc.lessonId, ids))
  \o SelectSeq(lessons, LAMBDA doc :
       Has(doc, "lesson_id") /\ In(doc.lesson_id, ids))

\* the results of the eight queries, in the order they are pushed
LessonDocuments(lessonIds) ==
  FindByIdIn(ObjectIds(lessonIds))
    \o FindBySecondary(StringIds(lessonIds))
    \o FindBySecondary(NumericIds(lessonIds))
    \o FindByIdIn(NumericIds(lessonIds))

\* filter: keep the first document of each _id.toString()
UniqueLessons(lessonDocuments) ==
  LET IsDuplicate(i) ==
        \E j \in 1..(i - 1) :
          ToStr(lessonDocuments[j]._id) = ToStr(lessonDocuments[i]._id)
      RECURSIVE Filter(_)
      Filter(i) ==
        IF i = 0 THEN <<>>
        ELSE IF IsDuplicate(i) THEN Filter(i - 1)
        ELSE Append(Filter(i - 1), lessonDocuments[i])
  IN Filter(Len(lessonDocuments))

\* getLessonProperty: top level first, then under lesson, then the default
GetLessonProperty(doc, propName, defaultValue) ==
  IF Has(doc, propName) THEN doc[propName]
  ELSE IF Has(doc, "lesson") /\ Has(doc.lesson, propName)
       THEN doc.lesson[propName]
  ELSE defaultValue

TransformedLesson(doc) ==
  [_id |-> doc._id,
   lesson |-> Get(doc, "lesson", <<>>),
   lesson_title |-> GetLessonProperty(doc, "lesson_title", ""),
   lesson_description |-> GetLessonProperty(doc, "lesson_description", ""),
   lesson_type |-> GetLessonProperty(doc, "lesson_type", ""),
   lesson_blocks |-> GetLessonProperty(doc, "lesson_blocks", <<>>),
   lesson_conditions |-> GetLessonProperty(doc, "lesson_conditions", <<>>),
   intro_text_blocks |-> GetLessonProperty(doc, "intro_text_blocks", <<>>),
   teacher |-> Get(doc, "teacher", ""),
   unit |-> doc.unit,
   createdAt |-> Get(doc, "createdAt", clock),
   updatedAt |-> Get(doc, "updatedAt", clock)]

RequestedCount_Distinct(lessonIds) ==
  Cardinality({lessonIds[i] : i \in 1..Len(lessonIds)})

RequestedCount(lessonIds) == Len(lessonIds)

GetLessonsByIds(lessonIds) ==
  LET uniqueLessons == UniqueLessons(LessonDocuments(lessonIds))
      returned == [i \in 1..Len(uniqueLessons) |->
                     TransformedLesson(uniqueLessons[i])]
  IN
  /\ resp' = IF Len(lessonIds) = 0
             THEN [op |-> "get-lessons-by-ids", status |-> 400,
                   lessonIds |-> lessonIds]
             ELSE [op |-> "get-lessons-by-ids", status |-> 200,
                   lessonIds |-> lessonIds,
                   lessons |-> returned,
                   requestedCount |-> RequestedCount(lessonIds),
                   foundCount |-> Len(returned)]
  /\ UNCHANGED <<teachers, lessons, profiles, clock, areq>>
  /\ UNCHANGED <<sockets, userSockets, studentData>>

(***************************************************************************)
(* Resolution: lessons are stored by /save-lesson (numeric _id) and by     *)
(* /copy-default-unit (ObjectId _id) and read by /get-lessons-by-ids       *)
(***************************************************************************)
\* lesson 1 as a number, as its string and as "1abc"; the lesson saved at
\* time 2; the copy with ObjectId 2 and an ObjectId nobody has
ResolveIdInputs == {Num(1), Digits(1), Junk(1), Num(2), Hex(2), Hex(9)}

LessonIdLists == UNION {[1..n -> ResolveIdInputs] : n \in 0..MaxIds}

NextResolve ==
  \/ \E l \in {FullLesson, TitleOnly} :
       SaveLesson(l, [name |-> "n1", value |-> "u1"], "T")
  \/ CopyDefaultUnit("T", "u3")
  \/ Tick
  \/ \E ids \in LessonIdLists : GetLessonsByIds(ids)

SpecResolve == Init /\ [][NextResolve]_vars

(***************************************************************************)
(* Claims about /get-lessons-by-ids                                        *)
(***************************************************************************)
\* the identifier names the stored document: the integer _id or its string
\* form, or the 24-hex form of an ObjectId _id
Refers(id, doc) ==
  \/ id.t \in {"num", "digits"} /\ doc._id = Num(id.n)
  \/ id.t = "hex" /\ doc._id = Oid(id.n)

Resolves(id) == \E i \in 1..Len(lessons) : Refers(id, lessons[i])

\* the stored documents the request refers to
Referred ==
  {i \in 1..Len(lessons) :
     \E j \in 1..Len(resp.lessonIds) : Refers(resp.lessonIds[j], lessons[i])}

Occurrences(doc) ==
  Cardinality({j \in 1..Len(resp.lessons) : resp.lessons[j]._id = doc._id})

\* C7: a stored lesson the request refers to by its integer identifier, the
\* string of that integer or its 24-hex string, in any mix, is returned
\* exactly once; nothing else is returned.
C7_ReturnedExactlyOnce ==
  (resp.op = "get-lessons-by-ids" /\ resp.status = 200) =>
    /\ \A i \in Referred : Occurrences(lessons[i]) = 1
    /\ Len(resp.lessons) = Cardinality(Referred)

\* ["1", 1, hex of another lesson] returns exactly 2 lessons
C7_Witness ==
  /\ resp.op = "get-lessons-by-ids"
  /\ resp.status = 200
  /\ resp.lessonIds = <<Digits(1), Num(1), Hex(2)>>
  /\ Len(resp.lessons) = 2
  /\ Cardinality(Referred) = 2

\* C8 (as amended): a request with a non-empty identifier list succeeds even
\* when some identifiers resolve to no lesson, returns every lesson that does
\* resolve, reports requestedCount = number of identifiers supplied and
\* foundCount = number of lessons returned, and foundCount < requestedCount
\* whenever some supplied identifier resolved to no lesson.
C8_PartialSuccessCounts ==
  (resp.op = "get-lessons-by-ids" /\ Len(resp.lessonIds) > 0) =>
    /\ resp.status = 200
    /\ \A i \in Referred : Occurrences(lessons[i]) = 1
    /\ resp.requestedCount = Len(resp.lessonIds)
    /\ resp.foundCount = Len(resp.lessons)
    /\ (\E j \in 1..Len(resp.lessonIds) : ~Resolves(resp.lessonIds[j]))
         => resp.foundCount < resp.requestedCount

\* a partial success: one identifier resolves, one does not
C8_Witness ==
  /\ resp.op = "get-lessons-by-ids"
  /\ resp.status = 200
  /\ resp.lessonIds = <<Hex(9), Num(1)>>
  /\ resp.requestedCount = 2
  /\ resp.foundCount = 1

\* C8 as stated: foundCount < requestedCount exactly when some supplied
\* identifier resolved to no lesson.
C8_CountsExactlyWhen ==
  (resp.op = "get-lessons-by-ids" /\ resp.status = 200) =>
    /\ resp.requestedCount = Len(resp.lessonIds)
    /\ resp.foundCount = Len(resp.lessons)
    /\ (resp.foundCount < resp.requestedCount)
         <=> (\E j \in 1..Len(resp.lessonIds) : ~Resolves(resp.lessonIds[j]))


(***************************************************************************)
(* GET /lessons/:teacherName                                               *)
(***************************************************************************)
\* the value of lesson.lesson_title when the object has no such field
NoTitle == "undefined"

Restrict(obj, keys) == [k \in keys \cap DOMAIN obj |-> obj[k]]

\* {_id, teacher, unit, createdAt, updatedAt, ...item.lesson, isMasterContent}
FlattenedLesson(item, isMasterContent) ==
  [isMasterContent |-> isMasterContent]
    @@ Get(item, "lesson", <<>>)
    @@ Restrict(item, {"_id", "teacher", "unit", "createdAt", "updatedAt"})

LessonsOf(teacherName) ==
  SelectSeq(lessons, LAMBDA item : item.teacher = teacherName)

MasterUnits(teacherName) ==
  IF teacherName # MASTER_TEACHER THEN UnitsOf(MASTER_TEACHER) ELSE <<>>

MasterLessons(teacherName) ==
  IF teacherName # MASTER_TEACHER
  THEN LET masterLessonsData == LessonsOf(MASTER_TEACHER)
       IN [i \in 1..Len(masterLessonsData) |->
             FlattenedLesson(masterLessonsData[i], TRUE)]
  ELSE <<>>

TeacherFlattenedLessons(teacherName) ==
  LET teacherLessons == LessonsOf(teacherName)
  IN [i \in 1..Len(teacherLessons) |-> FlattenedLesson(teacherLessons[i], FALSE)]

DefaultUnit_Untagged(unit) == unit

DefaultUnit(unit) == [isDefaultUnit |-> TRUE] @@ unit

CombinedUnits_AllMasterUnits(teacherName) ==
  LET teacherUnits == UnitsOf(teacherName)
      masterUnits == MasterUnits(teacherName)
  IN IF teacherName = MASTER_TEACHER THEN teacherUnits
     ELSE teacherUnits
            \o [i \in 1..Len(masterUnits) |-> DefaultUnit(masterUnits[i])]

\* the units before their references are populated
CombinedUnits(teacherName) ==
  LET teacherUnits == UnitsOf(teacherName)
      masterUnits == MasterUnits(teacherName)
      remaining ==
        SelectSeq(masterUnits,
          LAMBDA unit : \A i \in 1..Len(teacherUnits) :
                          teacherUnits[i].value # unit.value)
  IN IF teacherName = MASTER_TEACHER THEN teacherUnits
     ELSE IF Len(teacherUnits) > 0
          THEN teacherUnits
                 \o [i \in 1..Len(remaining) |-> DefaultUnit(remaining[i])]
     ELSE [i \in 1..Len(masterUnits) |-> DefaultUnit(masterUnits[i])]

CombinedLessons(teacherName) ==
  LET own == TeacherFlattenedLessons(teacherName)
      masterLessons == MasterLessons(teacherName)
      Title(l) == Get(l, "lesson_title", NoTitle)
  IN IF teacherName = MASTER_TEACHER THEN own
     ELSE IF Len(UnitsOf(teacherName)) > 0
          THEN own \o SelectSeq(masterLessons,
                 LAMBDA m : \A i \in 1..Len(own) : Title(own[i]) # Title(m))
     ELSE [i \in 1..Len(masterLessons) |->
             [isDefaultLesson |-> TRUE] @@ masterLessons[i]]

\* the strings collected from the references whose _id is truthy
AllLessonIds(combinedUnits) ==
  UNION {{ToStr(combinedUnits[i].lessons[j]._id) :
            j \in {x \in 1..Len(combinedUnits[i].lessons) :
                     Truthy(combinedUnits[i].lessons[x]._id)}} :
         i \in {x \in 1..Len(combinedUnits) : Has(combinedUnits[x], "lessons")}}

\* /^[0-9a-f]{24}$/i
IsValidObjectIdHex(str) == str.t = "hex"

\* !isNaN(str) && str.trim() !== ""
IsNumericId(str) == str.t = "digits"

ObjectIdArray(allLessonIds) ==
  {Oid(id.n) : id \in {x \in allLessonIds : IsValidObjectIdHex(x)}}

NumericIdArray(allLessonIds) ==
  {Num(ParseInt(id)) :
     id \in {x \in allLessonIds : ~IsValidObjectIdHex(x) /\ IsNumericId(x)}}

\* the documents of the two $in queries
FullLessonObjects(allLessonIds) ==
  SelectSeq(lessons, LAMBDA doc : doc._id \in ObjectIdArray(allLessonIds))
    \o SelectSeq(lessons, LAMBDA doc : doc._id \in NumericIdArray(allLessonIds))

\* the nested lesson object spread over the five document fields, then the
\* four top-level content fields
CompleteLesson(lessonDoc) ==
  Restrict(lessonDoc, {"content", "lesson_conditions", "intro_text_blocks",
                       "learning_objectives"})
    @@ Get(lessonDoc, "lesson", <<>>)
    @@ Restrict(lessonDoc, {"_id", "teacher", "unit", "createdAt", "updatedAt"})

\* lessonLookup[idString], 0 when the key is absent
LookupIdx(fullLessonObjects, idString) ==
  LET I == {i \in 1..Len(fullLessonObjects) :
              ToStr(fullLessonObjects[i]._id) = idString}
  IN IF I = {} THEN 0 ELSE CHOOSE i \in I : \A j \in I : j <= i

\* lessonLookup is a plain object ({}): the key "__proto__" reads
\* Object.prototype, a truthy object with no own properties
ObjectPrototype == <<>>

Inherited(idString) == idString.t = "proto"

PopulatedRef(fullLessonObjects, lessonRef) ==
  LET k == IF Truthy(lessonRef._id)
           THEN LookupIdx(fullLessonObjects, ToStr(lessonRef._id)) ELSE 0
  IN IF k # 0 THEN CompleteLesson(fullLessonObjects[k])
     ELSE IF Truthy(lessonRef._id) /\ Inherited(ToStr(lessonRef._id))
          THEN ObjectPrototype
     ELSE lessonRef

PopulatedUnits(combinedUnits) ==
  LET fullLessonObjects == FullLessonObjects(AllLessonIds(combinedUnits))
      Populated(unit) ==
        IF Has(unit, "lessons")
        THEN [lessons |-> [j \in 1..Len(unit.lessons) |->
                             PopulatedRef(fullLessonObjects, unit.lessons[j])]]
               @@ unit
        ELSE unit
  IN [i \in 1..Len(combinedUnits) |-> Populated(combinedUnits[i])]

GetLessons(teacherName) ==
  /\ resp' =
       IF teacherName = ""
       THEN [op |-> "lessons", status |-> 400]
       ELSE [op |-> "lessons", status |-> 200,
             teacherName |-> teacherName,
             units |-> PopulatedUnits(CombinedUnits(teacherName)),
             lessons |-> CombinedLessons(teacherName),
             isUsingMasterDefaults |->
               teacherName # MASTER_TEACHER /\ Len(UnitsOf(teacherName)) = 0,
             hasOwnContent |-> Len(UnitsOf(teacherName)) > 0,
             contentType |->
               IF teacherName = MASTER_TEACHER THEN "master"
               ELSE IF Len(UnitsOf(teacherName)) > 0 THEN "own"
               ELSE "default"]
  /\ UNCHANGED <<teachers, lessons, profiles, clock, areq>>
  /\ UNCHANGED <<sockets, userSockets, studentData>>


(***************************************************************************)
(* The combined view: the handlers that store lessons and references, and  *)
(* GET /lessons/:teacherName                                               *)
(***************************************************************************)
\* unit u2 as a client sends it back: a reference without _id followed by
\* the reference of the lesson saved at time 2; or one reference whose _id
\* is the string "__proto__"
ViewUnitInputs ==
  {[value |-> "u2", name |-> "n2", assigned_to_period |-> NoPeriod,
    isDefaultUnit |-> FALSE, lessons |-> l] :
     l \in {<<LegacyRef,
              [_id |-> Digits(2), lesson_title |-> "A",
               lesson_description |-> "d"]>>,
            <<[_id |-> Proto, lesson_title |-> "P"]>>}}

NextView ==
  \/ \E l \in {FullLesson, TitleOnly} :
       SaveLesson(l, [name |-> "n1", value |-> "u1"], "T")
  \/ \E id \in {Num(2), Junk(2), Digits(1)} :
       UpdateLesson(TitleOnly, [name |-> "n1", value |-> "u1"], "T", id)
  \/ CopyDefaultUnit("T", "u3")
  \/ \E u \in ViewUnitInputs : SaveUnitChanges("T", u)
  \/ \E u \in NewUnitInputs : CreateCustomUnit(MASTER_TEACHER, u)
  \/ Tick
  \/ \E t \in TeacherNames : GetLessons(t)

SpecView == Init /\ [][NextView]_vars

(***************************************************************************)
(* Claims about the combined view                                          *)
(***************************************************************************)
\* the stored document whose identifier is the reference's identifier, 0 if
\* the reference has no identifier or no document has it
DocumentOf(lessonRef) ==
  IF Truthy(lessonRef._id)
  THEN FirstOf({i \in 1..Len(lessons) :
                  ToStr(lessons[i]._id) = ToStr(lessonRef._id)})
  ELSE 0

IsDocument(entry, doc) ==
  /\ Has(entry, "_id") /\ entry._id = doc._id
  /\ Has(entry, "teacher") /\ entry.teacher = doc.teacher

\* C9: each returned unit lists as many lessons as the stored unit has
\* references, in the same order; an entry is the document whose identifier
\* is the reference's, or the reference itself when it has no identifier or
\* no document has it.
C9_ReferencesResolvedInPlace ==
  (resp.op = "lessons" /\ resp.status = 200) =>
    LET stored == CombinedUnits(resp.teacherName)
    IN /\ Len(resp.units) = Len(stored)
       /\ \A i \in 1..Len(stored) :
            /\ Len(resp.units[i].lessons) = Len(stored[i].lessons)
            /\ \A j \in 1..Len(stored[i].lessons) :
                 LET lessonRef == stored[i].lessons[j]
                     entry == resp.units[i].lessons[j]
                     k == DocumentOf(lessonRef)
                 IN IF k # 0 THEN IsDocument(entry, lessons[k])
                    ELSE entry = lessonRef

ViewFields ==
  {"lesson_title", "lesson_description", "lesson_blocks", "lesson_conditions",
   "intro_text_blocks"}

\* C10: an entry resolved to a stored document carries the document's
\* title, description, lesson blocks, conditions and intro blocks at top
\* level, whether the document stores them at top level or under lesson.
C10_ResolvedFieldsAtTopLevel ==
  (resp.op = "lessons" /\ resp.status = 200) =>
    LET stored == CombinedUnits(resp.teacherName)
    IN \A i \in 1..Len(stored) : \A j \in 1..Len(stored[i].lessons) :
         LET entry == resp.units[i].lessons[j]
             k == DocumentOf(stored[i].lessons[j])
         IN k # 0 =>
              \A f \in ViewFields :
                HasField(lessons[k], f) =>
                  Has(entry, f) /\ entry[f] = FieldOf(lessons[k], f)


\* the fields of a unit other than its lessons and its default tag
UnitFields == {"value", "name", "assigned_to_period"}

SharedValues(teacherName) ==
  {UnitsOf(teacherName)[i].value : i \in 1..Len(UnitsOf(teacherName))}
    \cap {UnitsOf(MASTER_TEACHER)[i].value :
            i \in 1..Len(UnitsOf(MASTER_TEACHER))}

Tagged(unit) == Has(unit, "isDefaultUnit") /\ unit.isDefaultUnit = TRUE

TitleOf(doc) ==
  IF HasField(doc, "lesson_title") THEN FieldOf(doc, "lesson_title")
  ELSE NoTitle

\* C13: for a requester other than the master teacher with at least one
\* unit, every master unit whose value none of the requester's units has is
\* listed tagged default, and every master lesson whose title no lesson of
\* the requester has is listed in lessons, in either storage shape.
C13_MasterContentNotLost ==
  (/\ resp.op = "lessons" /\ resp.status = 200
   /\ resp.teacherName # MASTER_TEACHER
   /\ Len(UnitsOf(resp.teacherName)) > 0) =>
    LET own == UnitsOf(resp.teacherName)
        masterUnits == UnitsOf(MASTER_TEACHER)
        ownLessons == LessonsOf(resp.teacherName)
        masterDocs == LessonsOf(MASTER_TEACHER)
    IN /\ \A i \in 1..Len(masterUnits) :
            (\A j \in 1..Len(own) : own[j].value # masterUnits[i].value) =>
              \E k \in 1..Len(resp.units) :
                /\ Tagged(resp.units[k])
                /\ Restrict(resp.units[k], UnitFields)
                     = Restrict(masterUnits[i], UnitFields)
       /\ \A i \in 1..Len(masterDocs) :
            (\A j \in 1..Len(ownLessons) :
               TitleOf(ownLessons[j]) # TitleOf(masterDocs[i])) =>
              \E k \in 1..Len(resp.lessons) :
                resp.lessons[k]._id = masterDocs[i]._id


(***************************************************************************)
(* Claims about the students' unit assignments                             *)
(***************************************************************************)
\* C14: a /save-lesson or /update-lesson into a unit leaves the lessonIds of
\* every unit assignment the students already hold as they were.
C14_AssignedLessonListsFrozen ==
  [][resp'.op \in {"save-lesson", "update-lesson"} =>
       \A st \in Students :
         /\ Len(profiles'[st].assignedUnitIds) = Len(profiles[st].assignedUnitIds)
         /\ \A i \in 1..Len(profiles[st].assignedUnitIds) :
              profiles'[st].assignedUnitIds[i].lessonIds
                = profiles[st].assignedUnitIds[i].lessonIds]_vars


\* the profiles of the teacher and class period a request names
Matching(teacherName, classPeriod) ==
  {st \in Students : /\ resp.pre.profiles[st].teacher = teacherName
                     /\ ToStr(Num(resp.pre.profiles[st].classPeriod))
                          = Digits(ParsePeriod(classPeriod))}

\* the identifiers the references of a unit hold
RefIds(unit) ==
  LET held == SelectSeq(unit.lessons, LAMBDA ref : Truthy(ref._id))
  IN [i \in 1..Len(held) |-> held[i]._id]

\* the requested unit as the teacher document holds it
RequestedUnit ==
  UnitsOf(resp.teacherName)[ValueIdx(UnitsOf(resp.teacherName), resp.unitValue)]

HoldsAssignment(st) ==
  \E i \in 1..Len(profiles[st].assignedUnitIds) :
    /\ profiles[st].assignedUnitIds[i].unitValue = resp.unitValue
    /\ profiles[st].assignedUnitIds[i].lessonIds = RefIds(RequestedUnit)

\* C15: after a successful /assign-unit for (T, U, p) every profile with
\* teacher T and period p holds an assignment of U whose lessonIds are the
\* identifiers of U's references, no other profile is changed, and
\* studentsUpdated is the number of those profiles.
C15_FanOutToMatchingStudents ==
  (resp.op = "assign-unit" /\ resp.status = 200) =>
    /\ \A st \in Matching(resp.teacherName, resp.classPeriod) :
         HoldsAssignment(st)
    /\ \A st \in Students \ Matching(resp.teacherName, resp.classPeriod) :
         profiles[st] = resp.pre.profiles[st]
    /\ resp.studentsUpdated
         = Cardinality(Matching(resp.teacherName, resp.classPeriod))


(***************************************************************************)
(* GET /lesson/:lessonId                                                   *)
(***************************************************************************)
\* the numeric _id first; when that finds nothing the ObjectId of the
\* string, or the string itself when it is no ObjectId string
FindLesson(lessonId) ==
  LET numericId == ParseInt(lessonId)
      k == IF numericId # NaN THEN FindById(Num(numericId)) ELSE 0
  IN IF k # 0 THEN k
     ELSE IF lessonId.t = "hex" THEN FindById(Oid(lessonId.n))
     ELSE FindById(lessonId)

\* a || b || dflt for the fields that hold strings
OrString(a, b, k, dflt) ==
  IF Has(a, k) /\ a[k] # "" THEN a[k]
  ELSE IF Has(b, k) /\ b[k] # "" THEN b[k]
  ELSE dflt

\* the object returned by GET /lesson/:lessonId
SingleLesson(lesson) ==
  Restrict(lesson, {"lesson_conditions", "content", "learning_objectives",
                    "lesson_blocks", "intro_text_blocks", "required_actions"})
    @@ Get(lesson, "lesson", <<>>)
    @@ [lesson_title |->
          OrString(lesson, Get(lesson, "lesson", <<>>), "lesson_title", ""),
        lesson_description |->
          OrString(lesson, Get(lesson, "lesson", <<>>), "lesson_description", "")]
    @@ Restrict(lesson, {"_id", "teacher", "unit", "createdAt", "updatedAt"})

GetLesson(lessonId) ==
  LET k == FindLesson(lessonId)
  IN
  /\ resp' = IF k = 0
             THEN [op |-> "get-lesson", status |-> 404, lessonId |-> lessonId,
                   found |-> 0]
             ELSE [op |-> "get-lesson", status |-> 200, lessonId |-> lessonId,
                   found |-> k, lesson |-> SingleLesson(lessons[k])]
  /\ UNCHANGED <<teachers, lessons, profiles, clock, areq>>
  /\ UNCHANGED <<sockets, userSockets, studentData>>

(***************************************************************************)
(* POST /fix-lesson-structure/:lessonId                                    *)
(***************************************************************************)
\* a || b || dflt for the fields that hold arrays, objects and dates, which
\* are truthy whenever they are present
OrPresent_ResetWhenSet(a, b, k, dflt) ==
  IF Has(b, k) THEN dflt ELSE IF Has(a, k) THEN a[k] ELSE dflt

OrPresent(a, b, k, dflt) ==
  IF Has(a, k) THEN a[k] ELSE IF Has(b, k) THEN b[k] ELSE dflt

\* the six condition fields; a field the condition lacks is stored as null
CleanCondition(condition) ==
  [condition_type |-> condition.condition_type,
   condition_value |-> Get(condition, "condition_value", Null),
   value |-> Get(condition, "value", Null),
   action_type |-> Get(condition, "action_type", "null")]

\* the modelled fields of flattenedLesson
FlattenedLessonDocument(lesson) ==
  LET nestedData == lesson.lesson
      conds == OrPresent(nestedData, lesson, "lesson_conditions", <<>>)
  IN [_id |-> lesson._id,
      lesson_title |-> OrString(nestedData, lesson, "lesson_title", ""),
      lesson_description |->
        OrString(nestedData, lesson, "lesson_description", ""),
      content |-> OrPresent(nestedData, lesson, "content", <<>>),
      lesson_blocks |-> OrPresent(nestedData, lesson, "lesson_blocks", <<>>),
      intro_text_blocks |->
        OrPresent(nestedData, lesson, "intro_text_blocks", <<>>),
      learning_objectives |->
        OrPresent(nestedData, lesson, "learning_objectives", <<>>),
      lesson_conditions |-> [i \in 1..Len(conds) |-> CleanCondition(conds[i])],
      required_actions |-> OrPresent(nestedData, lesson, "required_actions", <<>>),
      teacher |-> OrString(nestedData, lesson, "teacher", ""),
      unit |-> OrPresent(nestedData, lesson, "unit", UnitString("")),
      createdAt |-> OrPresent(nestedData, lesson, "createdAt", clock),
      updatedAt |-> OrPresent(nestedData, lesson, "updatedAt", clock)]

FixLessonStructure(lessonId) ==
  LET numericId == ParseInt(lessonId)
      k == IF numericId # NaN THEN FindById(Num(numericId)) ELSE 0
      Answer(code, flat) ==
        [op |-> "fix-lesson-structure", status |-> code, lessonId |-> lessonId,
         found |-> k, isAlreadyFlat |-> flat, pre |-> [lessons |-> lessons]]
  IN
  /\ IF k = 0
     THEN /\ resp' = Answer(404, FALSE)
          /\ UNCHANGED lessons
     ELSE IF Has(lessons[k], "lesson")
     THEN \* updateOne({_id}, {$set: flattenedLesson})
          /\ lessons' = [lessons EXCEPT
                           ![k] = FlattenedLessonDocument(lessons[k]) @@ lessons[k]]
          /\ resp' = Answer(200, FALSE)
     ELSE /\ resp' = Answer(200, TRUE)
          /\ UNCHANGED lessons
  /\ UNCHANGED <<teachers, profiles, clock, areq>>
  /\ UNCHANGED <<sockets, userSockets, studentData>>

(***************************************************************************)
(* Single lessons: stored by /save-lesson, /update-lesson and              *)
(* /copy-default-unit, looked up by GET /lesson, /update-lesson and        *)
(* /fix-lesson-structure                                                   *)
(***************************************************************************)
\* the strings of lessons 1 and 2 and of the copy with ObjectId 2, and
\* strings that name no lesson
LookupIdInputs == {Digits(1), Digits(2), Hex(2), Junk(1), Hex(9)}

NextRepair ==
  \/ SaveLesson(FullLesson, [name |-> "n1", value |-> "u1"], "T")
  \/ \E id \in {Digits(1), Digits(2), Hex(2)} :
       UpdateLesson(ConditionsOnly, [name |-> "n1", value |-> "u1"], "T", id)
  \/ CopyDefaultUnit("T", "u3")
  \/ \E id \in LookupIdInputs : GetLesson(id)
  \/ \E id \in LookupIdInputs : FixLessonStructure(id)
  \/ Tick

SpecRepair == Init /\ [][NextRepair]_vars

(***************************************************************************)
(* Claims about the single-lesson lookups and the structure repair         *)
(***************************************************************************)
\* the stored lesson whose identifier has that string form, 0 if none
StoredAs(idString) ==
  FirstOf({i \in 1..Len(lessons) : ToStr(lessons[i]._id) = idString})

\* C16: GET /lesson, /update-lesson and /fix-lesson-structure, given the
\* string form of a stored lesson's identifier, find that lesson.
C16_LookupFindsStoredLesson ==
  (/\ resp.op \in {"get-lesson", "update-lesson", "fix-lesson-structure"}
   /\ StoredAs(resp.lessonId) # 0) =>
    resp.found = StoredAs(resp.lessonId)

\* the document the repair answered about
Repaired == lessons[resp.found]

FixAnswered ==
  /\ resp.op = "fix-lesson-structure"
  /\ resp.status = 200

\* C17: the document a repair leaves behind is the document a second repair
\* would write (a second run in a row changes nothing), and a repair of a
\* document with no nested lesson object writes nothing.
C17_RepairIsIdempotent ==
  FixAnswered =>
    IF resp.isAlreadyFlat
    THEN /\ ~Has(resp.pre.lessons[resp.found], "lesson")
         /\ lessons = resp.pre.lessons
    ELSE /\ Has(Repaired, "lesson")
         /\ FlattenedLessonDocument(Repaired) @@ Repaired = Repaired

\* a repair has run on a document that an earlier repair had written: the
\* nested object is there and the run changed nothing
C17_Witness ==
  /\ FixAnswered
  /\ ~resp.isAlreadyFlat
  /\ lessons = resp.pre.lessons

\* C18: a repair leaves the nested lesson object as it was, and every
\* top-level field that held a value before the repair holds that value
\* after it.
C18_RepairPreservesValues ==
  (FixAnswered /\ ~resp.isAlreadyFlat) =>
    \A k \in DOMAIN resp.pre.lessons[resp.found] :
      /\ Has(Repaired, k)
      /\ Repaired[k] = resp.pre.lessons[resp.found][k]

(***************************************************************************)
(* Requests: payloads that lack fields, and notifications that fail        *)
(***************************************************************************)
\* the complete payload {lesson, unit, teacher, lessonId} and the payloads
\* that lack one of the four fields
RequestPayloads ==
  LET unit == [name |-> "n1", value |-> "u1"]
  IN {<<TitleOnly, unit, "T", Digits(1)>>,
      <<Undefined, unit, "T", Digits(1)>>,
      <<TitleOnly, Undefined, "T", Digits(1)>>,
      <<TitleOnly, unit, "", Digits(1)>>,
      <<TitleOnly, unit, "T", Undef>>}

RequestAssignInputs ==
  {<<"T", "u1", "1">>, <<"", "u1", "1">>, <<"T", "", "1">>, <<"T", "u1", "">>}

RequestUnitData ==
  {[value |-> "u2", name |-> n, assigned_to_period |-> NoPeriod,
    lessons |-> <<>>, isDefaultUnit |-> FALSE] : n \in {"n2", "n5"}}

\* one request at a time
NextRequest ==
  \/ \E in \in RequestAssignInputs : AssignStart(1, in[1], in[2], in[3])
  \/ AssignSet(1)
  \/ AssignFetch(1)
  \/ AssignFind(1)
  \/ \E emit \in EmitOutcomes : AssignUpdateHandler(1, emit)
  \/ /\ InFlight = {}
     /\ \/ \E p \in RequestPayloads : SaveLesson(p[1], p[2], p[3])
        \/ \E p \in RequestPayloads, emit \in EmitOutcomes :
             UpdateLessonHandler(p[1], p[2], p[3], p[4], emit)
        \/ \E u \in RequestUnitData, emit \in EmitOutcomes :
             SaveUnitChangesHandler("T", u, emit)
        \/ Tick

SpecRequest == Init /\ [][NextRequest]_vars

\* C19: when a notification fails after /update-lesson, /assign-unit or
\* /saveUnitChanges has made its store writes, the request is answered with
\* success.
C19_NotificationFailureKeepsSuccess ==
  (/\ resp.op \in {"update-lesson", "assign-unit", "saveUnitChanges"}
   /\ Has(resp, "emit")
   /\ resp.emit # "sent") =>
    resp.status = 200

\* C20: /save-lesson, /update-lesson and /assign-unit answer a payload that
\* lacks a required field with a failure, without reading or writing the
\* store.
C20_MissingFieldRejectedBeforeStore ==
  (/\ resp.op \in {"save-lesson", "update-lesson", "assign-unit"}
   /\ Has(resp, "missing")
   /\ resp.missing # {}) =>
    /\ resp.status >= 400
    /\ resp.store = "untouched"

(***************************************************************************)
(* Conditions: the back-fill of condition_value by /update-lesson          *)
(***************************************************************************)
\* a condition that carries both fields, with different values
BothCondition == [condition_type |-> "c3", condition_value |-> 3, value |-> 5]

\* a condition whose condition_value is missing, not null
MissingValueCondition == [condition_type |-> "c4", value |-> 7]

ConditionPayloads ==
  {[lesson_conditions |-> <<LegacyCondition, BothCondition>>],
   [lesson_conditions |-> <<MissingValueCondition, PlainCondition>>],
   TitleOnly}

NextConditions ==
  \/ SaveLesson(FullLesson, [name |-> "n1", value |-> "u1"], "T")
  \/ \E l \in ConditionPayloads, id \in {Digits(1), Digits(2)} :
       UpdateLesson(l, [name |-> "n1", value |-> "u1"], "T", id)
  \/ Tick

SpecConditions == Init /\ [][NextConditions]_vars

\* condition_value is neither null nor missing
Populated(cond) == Has(cond, "condition_value") /\ cond.condition_value # Null

LegacyPopulated(cond) == Has(cond, "value") /\ cond.value # Null

\* an /update-lesson request that carried conditions has been applied
ConditionsUpdated ==
  /\ resp.op = "update-lesson"
  /\ resp.status = 200
  /\ Has(resp.lesson, "lesson_conditions")

\* C21: after /update-lesson every stored condition whose incoming
\* condition_value was null or missing and whose legacy value was populated
\* has the legacy value as its condition_value, and a condition whose
\* condition_value was populated keeps it.
C21_LegacyValueBackfilled ==
  ConditionsUpdated =>
    LET incoming == resp.lesson.lesson_conditions
        stored == lessons[resp.found].lesson.lesson_conditions
    IN /\ Len(stored) = Len(incoming)
       /\ \A i \in 1..Len(incoming) :
            /\ (~Populated(incoming[i]) /\ LegacyPopulated(incoming[i])) =>
                 stored[i].condition_value = incoming[i].value
            /\ Populated(incoming[i]) =>
                 stored[i].condition_value = incoming[i].condition_value

\* an update has stored a back-filled condition next to a condition that
\* carried both values
C21_Witness ==
  /\ ConditionsUpdated
  /\ \E i, j \in 1..Len(resp.lesson.lesson_conditions) :
       /\ ~Populated(resp.lesson.lesson_conditions[i])
       /\ LegacyPopulated(resp.lesson.lesson_conditions[i])
       /\ Populated(resp.lesson.lesson_conditions[j])
       /\ LegacyPopulated(resp.lesson.lesson_conditions[j])
       /\ resp.lesson.lesson_conditions[j].value
            # resp.lesson.lesson_conditions[j].condition_value

(***************************************************************************)
(* Explicit values: payload fields that are false or empty                 *)
(***************************************************************************)
\* a payload that empties the text and the arrays of a lesson
EmptyValues ==
  [lesson_title |-> "", lesson_description |-> "", content |-> <<>>,
   lesson_blocks |-> <<>>, lesson_conditions |-> <<>>, required_actions |-> <<>>]

\* a payload that clears the structure_cleaned flag
ClearedFlag == [lesson_title |-> "A", structure_cleaned |-> FALSE]

NextExplicit ==
  \/ SaveLesson(FullLesson, [name |-> "n1", value |-> "u1"], "T")
  \/ \E l \in {EmptyValues, ClearedFlag, TitleOnly}, id \in {Digits(1), Digits(2)} :
       UpdateLesson(l, [name |-> "n1", value |-> "u1"], "T", id)
  \/ Tick

SpecExplicit == Init /\ [][NextExplicit]_vars

\* the payload gives field k the value false, "" or []
ExplicitlyEmpty(lesson, k) ==
  \/ k \in {"lesson_title", "lesson_description"} /\ lesson[k] = ""
  \/ /\ k \in {"content", "lesson_blocks", "intro_text_blocks",
               "learning_objectives", "lesson_conditions", "required_actions"}
     /\ lesson[k] = <<>>
  \/ k \in {"structure_cleaned"} /\ lesson[k] = FALSE

\* C22: /update-lesson stores a payload field whose value is false, the
\* empty string or the empty array as exactly that value.
C22_ExplicitEmptyValuesStored ==
  (resp.op = "update-lesson" /\ resp.status = 200) =>
    \A k \in DOMAIN resp.lesson :
      ExplicitlyEmpty(resp.lesson, k) =>
        /\ Has(lessons[resp.found].lesson, k)
        /\ lessons[resp.found].lesson[k] = resp.lesson[k]

(***************************************************************************)
(* Claims about the result of /save-lesson                                 *)
(***************************************************************************)
\* the units of teacher t that hold a reference with that identifier
Holders(t, idString) ==
  {i \in 1..Len(UnitsOf(t)) :
     \E j \in 1..Len(UnitsOf(t)[i].lessons) :
       UnitsOf(t)[i].lessons[j]._id = idString}

\* C23: after /save-lesson answers with success and a lessonId, a lesson
\* document with that identifier is stored, exactly one unit of the named
\* teacher holds a reference to it and that unit has the given name; the
\* identifier is that of the document just created and no two documents
\* share an identifier, so no two answers return the same lessonId.
C23_SavedLessonStoredAndReferenced ==
  (resp.op = "save-lesson" /\ resp.status = 201) =>
    /\ ToStr(lessons[Len(lessons)]._id) = resp.lessonId
    /\ \A i, j \in 1..Len(lessons) : lessons[i]._id = lessons[j]._id => i = j
    /\ HasUnits(resp.teacher)
    /\ Cardinality(Holders(resp.teacher, resp.lessonId)) = 1
    /\ \A i \in Holders(resp.teacher, resp.lessonId) :
         UnitsOf(resp.teacher)[i].name = resp.unit.name

(***************************************************************************)
(* Repeated /assign-unit requests, with time passing between them          *)
(***************************************************************************)
RepeatInputs == {"T"} \X {"u1", "u2"} \X {"1", "2"}

NextRepeat ==
  \/ \E in \in RepeatInputs : AssignStart(1, in[1], in[2], in[3])
  \/ AssignSteps(1)
  \/ InFlight = {} /\ Tick

SpecRepeat == Init /\ [][NextRepeat]_vars

\* the entries of a profile's assignedUnitIds for one unit
EntriesFor(st, unitValue) ==
  {i \in 1..Len(profiles[st].assignedUnitIds) :
     profiles[st].assignedUnitIds[i].unitValue = unitValue}

\* C24: however often an /assign-unit request is repeated, no student
\* profile holds two assignment entries for the same unit.
C24_OneEntryPerUnit ==
  \A st \in Students : \A v \in {"u1", "u2"} :
    Cardinality(EntriesFor(st, v)) <= 1

(***************************************************************************)
(* GET /api/student-lessons/:studentId                                     *)
(***************************************************************************)
\* the teacher whose assignments are read: the student's own teacher, or
\* the master teacher when the student has none or has the master teacher
LessonsTeacher(studentTeacher) ==
  IF studentTeacher # "" /\ studentTeacher # MASTER_TEACHER
  THEN studentTeacher ELSE MASTER_TEACHER

\* [...new Set(allLessonIds)].filter(Boolean) over the assignments of that
\* teacher
StudentLessonIds(profile) ==
  UNION {{profile.assignedUnitIds[i].lessonIds[j] :
            j \in {x \in 1..Len(profile.assignedUnitIds[i].lessonIds) :
                     Truthy(profile.assignedUnitIds[i].lessonIds[x])}} :
         i \in {x \in 1..Len(profile.assignedUnitIds) :
                  profile.assignedUnitIds[x].teacherName
                    = LessonsTeacher(profile.teacher)}}

\* one formatted lesson of the response
StudentLesson(doc) ==
  [_id |-> doc._id,
   lesson_title |-> OrString(doc, Get(doc, "lesson", <<>>), "lesson_title", ""),
   teacher |-> doc.teacher,
   unit |-> doc.unit]

\* the handler; the identifiers are split into ObjectIds and numbers and
\* fetched with two $in queries, as in GET /lessons/:teacherName
GetStudentLessons(studentId) ==
  LET studentProfile == profiles[studentId]
      lessonDocs == FullLessonObjects(StudentLessonIds(studentProfile))
  IN
  /\ resp' = [op |-> "student-lessons", status |-> 200,
              studentId |-> studentId,
              studentTeacher |-> studentProfile.teacher,
              lessons |-> [i \in 1..Len(lessonDocs) |-> StudentLesson(lessonDocs[i])]]
  /\ UNCHANGED <<teachers, lessons, profiles, clock, areq>>
  /\ UNCHANGED <<sockets, userSockets, studentData>>

NextStudent ==
  \/ AssignStart(1, "T", "u1", "1")
  \/ AssignSteps(1)
  \/ /\ InFlight = {}
     /\ \/ \E l \in {FullLesson, TitleOnly} :
             SaveLesson(l, [name |-> "n1", value |-> "u1"], "T")
        \/ \E id \in {Digits(1), Digits(2)} :
             UpdateLesson(TitleOnly, [name |-> "n1", value |-> "u1"], "T", id)
        \/ \E st \in Students : GetStudentLessons(st)

SpecStudent == Init /\ [][NextStudent]_vars

\* C25: every lesson that GET /api/student-lessons returns for a student of
\* a non-master teacher T is a lesson of T.
C25_OnlyOwnTeachersLessons ==
  (/\ resp.op = "student-lessons"
   /\ resp.studentTeacher # ""
   /\ resp.studentTeacher # MASTER_TEACHER) =>
    \A i \in 1..Len(resp.lessons) :
      resp.lessons[i].teacher = resp.studentTeacher

(***************************************************************************)
(* Socket.IO connections and the userSockets registry                      *)
(***************************************************************************)
\* Map.prototype.set: the value of an existing key is replaced in place, a
\* new key is added at the end
MapSet(map, key, value) ==
  IF \E i \in 1..Len(map) : map[i].key = key
  THEN [i \in 1..Len(map) |->
          IF map[i].key = key THEN [key |-> key, value |-> value] ELSE map[i]]
  ELSE Append(map, [key |-> key, value |-> value])

\* Map.prototype.delete of the entry at position i
MapDeleteAt(map, i) ==
  [j \in 1..(Len(map) - 1) |-> IF j < i THEN map[j] ELSE map[j + 1]]

\* io.on("connection", ...)
Connect(socket) ==
  /\ sockets[socket] = "new"
  /\ sockets' = [sockets EXCEPT ![socket] = "open"]
  /\ resp' = [op |-> "connection", socket |-> socket]
  /\ UNCHANGED <<teachers, lessons, profiles, clock, areq, userSockets,
                 studentData>>

\* socket.on("identify", ...)
Identify(socket, userId) ==
  /\ sockets[socket] = "open"
  /\ userSockets' = MapSet(userSockets, userId, socket)
  /\ resp' = [op |-> "identify", socket |-> socket, userId |-> userId]
  /\ UNCHANGED <<teachers, lessons, profiles, clock, areq, sockets, studentData>>

\* socket.on("disconnect", ...): the loop deletes the first entry whose
\* value is the socket and stops
Disconnect(socket) ==
  LET i == FirstOf({x \in 1..Len(userSockets) : userSockets[x].value = socket})
  IN
  /\ sockets[socket] = "open"
  /\ sockets' = [sockets EXCEPT ![socket] = "closed"]
  /\ userSockets' = IF i = 0 THEN userSockets ELSE MapDeleteAt(userSockets, i)
  /\ resp' = [op |-> "disconnect", socket |-> socket,
              pre |-> [userSockets |-> userSockets]]
  /\ UNCHANGED <<teachers, lessons, profiles, clock, areq, studentData>>

NextSockets ==
  \/ \E k \in SocketIds : Connect(k)
  \/ \E k \in SocketIds, u \in UserIds : Identify(k, u)
  \/ \E k \in SocketIds : Disconnect(k)

SpecSockets == Init /\ [][NextSockets]_vars

\* the entries of a registry, as a set
Entries(map) == {map[i] : i \in 1..Len(map)}

\* C26: after a socket's disconnect has been handled the registry holds no
\* entry whose value is that socket, and every entry that mapped to another
\* socket is still there.
C26_DisconnectRemovesOwnEntries ==
  resp.op = "disconnect" =>
    /\ \A e \in Entries(userSockets) : e.value # resp.socket
    /\ \A e \in Entries(resp.pre.userSockets) :
         e.value # resp.socket => e \in Entries(userSockets)

(***************************************************************************)
(* POST /api/sdsm/session                                                  *)
(* A completion record is modelled by its lessonId, the only field the     *)
(* handler compares.                                                       *)
(***************************************************************************)
\* profilesCollection.findOne({memberName}): index of the document, 0 if none
FindProfile(memberName) ==
  FirstOf({i \in 1..Len(studentData) : studentData[i].memberName = memberName})

\* studentProfile["Lesson Data"].find(d => d.studentName === studentName)
FindLessonData(profile, studentName) ==
  FirstOf({i \in 1..Len(profile.LessonData) :
             profile.LessonData[i].studentName = studentName})

\* records.filter(l => !existingIds.has(l.lessonId))
NewRecords(records, existing) ==
  SelectSeq(records, LAMBDA id : \A i \in 1..Len(existing) : existing[i] # id)

SdsmSession(studentName, completedLessons) ==
  LET k == FindProfile(studentName)
      studentProfile == studentData[k]
      e == FindLessonData(studentProfile, studentName)
      sessionData == [studentName |-> studentName,
                      completedLessons |-> completedLessons,
                      lessonTimers |-> <<>>]
  IN
  /\ IF studentName = ""
     THEN /\ resp' = [op |-> "sdsm-session", status |-> 400]
          /\ UNCHANGED studentData
     ELSE /\ resp' = [op |-> "sdsm-session", status |-> 200,
                      studentName |-> studentName,
                      completedLessons |-> completedLessons]
          /\ IF k = 0
             THEN \* upsert: a new document with the pushed fields
                  studentData' = Append(studentData,
                    [memberName |-> studentName,
                     completedLessons |-> completedLessons,
                     LessonData |-> <<sessionData>>])
             ELSE IF e = 0
             THEN studentData' = [studentData EXCEPT ![k] =
                    [@ EXCEPT
                       !.completedLessons =
                          @ \o NewRecords(completedLessons, @),
                       !.LessonData = Append(@, sessionData)]]
             ELSE \* $[elem] with the arrayFilter on elem.studentName
                  studentData' = [studentData EXCEPT ![k] =
                    [@ EXCEPT
                       !.completedLessons =
                          @ \o NewRecords(completedLessons, @),
                       !.LessonData =
                          [i \in 1..Len(@) |->
                             IF @[i].studentName = studentName
                             THEN [@[i] EXCEPT !.completedLessons =
                                    @ \o NewRecords(completedLessons,
                                           studentProfile.LessonData[e].completedLessons)]
                             ELSE @[i]]]]
  /\ UNCHANGED <<teachers, lessons, profiles, clock, areq, sockets, userSockets>>

SessionInputs ==
  {<<>>, <<"L1">>, <<"L2">>, <<"L1", "L2">>, <<"L1", "L1">>}

NextSession ==
  \E st \in {"s1", "s3", ""}, c \in SessionInputs : SdsmSession(st, c)

SpecSession == Init /\ [][NextSession]_vars

\* no lessonId occurs twice in the list
NoRepeat(records) ==
  \A i, j \in 1..Len(records) : records[i] = records[j] => i = j

\* C27: after any sequence of /api/sdsm/session requests a profile's
\* completedLessons, at the root and inside its Lesson Data entries, holds
\* at most one record per lessonId.
C27_OneCompletionPerLesson ==
  \A i \in 1..Len(studentData) :
    /\ NoRepeat(studentData[i].completedLessons)
    /\ \A j \in 1..Len(studentData[i].LessonData) :
         NoRepeat(studentData[i].LessonData[j].completedLessons)

(***************************************************************************)
(* POST /update-lesson-time: a findOne, then one write computed from what  *)
(* the findOne returned; the requests of different slots interleave        *)
(***************************************************************************)
\* lessonData?.lessonTimers?.[lessonId]?.elapsedTime || 0
ExistingElapsedTime(profile, e, lessonId) ==
  IF e = 0 THEN 0
  ELSE IF lessonId \in DOMAIN profile.LessonData[e].lessonTimers
  THEN profile.LessonData[e].lessonTimers[lessonId]
  ELSE 0

\* validation and findOne; the request keeps what it read
TimeRead(s, studentName, lessonId, elapsedTime) ==
  LET k == FindProfile(studentName)
      e == IF k = 0 THEN 0 ELSE FindLessonData(studentData[k], studentName)
  IN
  /\ areq[s].pc = "idle"
  /\ IF studentName = "" \/ lessonId = ""
     THEN /\ resp' = [op |-> "update-lesson-time", status |-> 400]
          /\ UNCHANGED areq
     ELSE /\ areq' = [areq EXCEPT ![s] =
                [pc |-> "time-write", studentName |-> studentName,
                 lessonId |-> lessonId, elapsedTime |-> elapsedTime,
                 studentProfile |-> k # 0, lessonData |-> e # 0,
                 existingElapsedTime |->
                   IF k = 0 THEN 0
                   ELSE ExistingElapsedTime(studentData[k], e, lessonId)]]
          /\ resp' = NoResp
  /\ UNCHANGED <<teachers, lessons, profiles, clock, sockets, userSockets,
                 studentData>>

\* the updateOne or insertOne, and the response; the slot keeps the finished
\* request
TimeWrite(s) ==
  LET r == areq[s]
      newTotalElapsedTime == r.existingElapsedTime + r.elapsedTime
      k == FindProfile(r.studentName)
      \* {memberName, "Lesson Data.studentName": studentName}
      m == FirstOf({i \in 1..Len(studentData) :
                      /\ studentData[i].memberName = r.studentName
                      /\ FindLessonData(studentData[i], r.studentName) # 0})
      SetTimer(entry) ==
        [entry EXCEPT !.lessonTimers =
           (r.lessonId :> newTotalElapsedTime) @@ @]
      newEntry == [studentName |-> r.studentName, completedLessons |-> <<>>,
                   lessonTimers |-> (r.lessonId :> newTotalElapsedTime)]
  IN
  /\ r.pc = "time-write"
  /\ studentData' =
       IF r.studentProfile /\ r.lessonData
       THEN IF m = 0 THEN studentData
            ELSE [studentData EXCEPT ![m].LessonData =
                    [@ EXCEPT ![FindLessonData(studentData[m], r.studentName)] =
                       SetTimer(@)]]
       ELSE IF r.studentProfile
       THEN IF k = 0 THEN studentData
            ELSE [studentData EXCEPT ![k].LessonData = Append(@, newEntry)]
       ELSE Append(studentData,
              [memberName |-> r.studentName, completedLessons |-> <<>>,
               LessonData |-> <<newEntry>>])
  /\ resp' = [op |-> "update-lesson-time",
              status |-> IF r.studentProfile THEN 200 ELSE 201,
              totalElapsedTime |-> newTotalElapsedTime]
  /\ areq' = [areq EXCEPT ![s] = [r EXCEPT !.pc = "done"]]
  /\ UNCHANGED <<teachers, lessons, profiles, clock, sockets, userSockets>>

ElapsedInputs == {1, 2}

\* every slot sends one request
NextTime ==
  \E s \in Slots :
    \/ \E st \in {"s1", "s3", ""}, l \in {"L1", "L2"}, t \in ElapsedInputs :
         TimeRead(s, st, l, t)
    \/ TimeWrite(s)

SpecTime == Init /\ [][NextTime]_vars

\* the documents of a student
ProfilesOf(studentName) ==
  {i \in 1..Len(studentData) : studentData[i].memberName = studentName}

\* all slots have completed a request for the same student and lesson
AllTimesWritten ==
  /\ \A s \in Slots : areq[s].pc = "done"
  /\ \A s \in Slots : /\ areq[s].studentName = areq[1].studentName
                       /\ areq[s].lessonId = areq[1].lessonId

RECURSIVE SumOfElapsed(_)
SumOfElapsed(S) ==
  IF S = {} THEN 0
  ELSE LET s == CHOOSE x \in S : TRUE
       IN areq[s].elapsedTime + SumOfElapsed(S \ {s})

\* C28: once interleaved /update-lesson-time requests for one student and
\* lesson have completed, the student has one profile document with one
\* Lesson Data entry, and its elapsedTime is the sum of the submitted times.
C28_ElapsedTimeIsSum ==
  AllTimesWritten =>
    LET st == areq[1].studentName
    IN /\ Cardinality(ProfilesOf(st)) = 1
       /\ \A i \in ProfilesOf(st) :
            /\ Len(studentData[i].LessonData) = 1
            /\ areq[1].lessonId \in DOMAIN studentData[i].LessonData[1].lessonTimers
            /\ studentData[i].LessonData[1].lessonTimers[areq[1].lessonId]
                 = SumOfElapsed(Slots)


(***************************************************************************)
(* Claims about the lesson a single-lesson request reaches                 *)
(***************************************************************************)
\* the answer of a request that found the lesson it returns or rewrites
ReachedLesson ==
  /\ resp.op \in {"get-lesson", "update-lesson"}
  /\ resp.status = 200
  /\ resp.found # 0

\* C29: a GET /lesson/:lessonId or /update-lesson request that answers 200
\* returned or rewrote a lesson whose _id, as a string, is the identifier
\* of the request.
C29_LessonMatchesIdentifier ==
  ReachedLesson => ToStr(lessons[resp.found]._id) = ToStr(resp.lessonId)

(***************************************************************************)
(* Claims about the unit values of a teacher's document                    *)
(***************************************************************************)
\* the positions of the units of teacher t whose value is v
UnitsWithValue(t, v) ==
  {i \in 1..Len(teachers[t].units) : teachers[t].units[i].value = v}

\* C30: a teacher's document holds at most one unit with a given value.
C30_OneUnitPerValue ==
  \A t \in TeacherNames :
    \A i \in 1..Len(teachers[t].units) :
      Cardinality(UnitsWithValue(t, teachers[t].units[i].value)) = 1
====
